---- MODULE Spec2Model ----
(***************************************************************************)
(* Idle-RPGv2: the matchmaking queue (app/services/matchmaking.js) and the *)
(* server battle engine (services/battle-service, kept in                  *)
(* src/unnamed/part_008).                                                  *)
(*                                                                         *)
(* Three state machines share this module.                                 *)
(*   SpecQueue   the queue handlers as the routes call them; the battle a  *)
(*               pairing runs is summarised by its outcome (a fresh battle *)
(*               id, or the exception a missing character record raises).  *)
(*   SpecStore   the battle routes over stores whose writes can fail, with *)
(*               the experience a pairing awards.                          *)
(*   SpecBattle  one simulateBattle call, one step per half of a loop      *)
(*               iteration (processAttack, then processEffects), then      *)
(*               determineWinner.  SpecBattleFair is the same machine with *)
(*               the loop running on, for termination.                     *)
(*                                                                         *)
(* Numbers.  Times are integers counted in tenths of a second (the log's   *)
(* resolution), percentages are integers, and Math.round is computed over  *)
(* exact rationals; binary floating point rounding noise is not modelled,  *)
(* and the data below is chosen so that every product is exact.            *)
(***************************************************************************)
EXTENDS Integers, Sequences, FiniteSets, TLC

VARIABLES
  \* ---- matchmaking service and the stores it reads and writes
  matchmakingQueue,            \* array of {characterId, playerId, timestamp}
  pendingMatchNotifications,   \* characterId -> {opponentId, battleId} | NoMatch
  characters,                  \* ids of the records in characters.json
  battlelogs,                  \* ids of the results in battlelogs.json
  nextBattleId,                \* the next uuid simulateBattle draws
  lastCall,                    \* the last handler call and what it returned
  progress,                    \* characters.json: id -> experience, level, points
  battleResult,                \* the result the last call had formatted, if any
  \* ---- one simulateBattle call
  battleState,                 \* {character1, character2, rounds, winner}
  char1NextAttack,
  char2NextAttack,
  battleTime,
  pc,                          \* "idle" | "loop" | "effects" | "done"
  act                          \* what the last loop step did (observation)

qvars == <<matchmakingQueue, pendingMatchNotifications, characters, battlelogs,
           nextBattleId, lastCall, progress, battleResult>>
bvars == <<battleState, char1NextAttack, char2NextAttack, battleTime, pc, act>>
vars == <<matchmakingQueue, pendingMatchNotifications, characters, battlelogs,
          nextBattleId, lastCall, progress, battleResult,
          battleState, char1NextAttack, char2NextAttack, battleTime, pc, act>>

(***************************************************************************)
(* Bounds of the model.                                                    *)
(***************************************************************************)
NumChars == 3
MaxBattles == 2
MaxClock == 1
MaxDeleted == 1
MaxStoreBattles == 1
NumBattles == 13

(***************************************************************************)
(* Generic helpers.                                                        *)
(***************************************************************************)
Min(a, b) == IF a <= b THEN a ELSE b
Max(a, b) == IF a >= b THEN a ELSE b

\* Math.round(num / den) for den > 0: floor(x + 0.5)
Round(num, den) == (2 * num + den) \div (2 * den)

\* the element of a singleton: The({e : v \in {d}}) is e with v the value of d
The(S) == CHOOSE v \in S : TRUE

(***************************************************************************)
(* Matchmaking: data.                                                      *)
(***************************************************************************)
CharIds == 1..NumChars

\* the readings new Date() can give (the wall clock is an input of each call)
Times == 0..MaxClock

\* characters.json: every record keeps the playerId of the session that
\* created it; characters 1 and 2 belong to player 1, 3 and 4 to player 2, ...
Owner(c) == (c + 1) \div 2

NoMatch == [opponentId |-> 0, battleId |-> 0]

NoCall == [op |-> "none", characterId |-> 0, match |-> NoMatch, inQueue |-> FALSE,
           queuePosition |-> 0, removed |-> FALSE, threw |-> FALSE,
           opponent |-> 0, battles |-> 0, message |-> "", dropped |-> NoMatch,
           stamp |-> 0]

InQueue(q, c) == \E i \in 1..Len(q) : q[i].characterId = c

getQueuePosition_ZeroBased(q, c) ==
  IF InQueue(q, c)
  THEN (CHOOSE i \in 1..Len(q) :
          q[i].characterId = c /\ \A j \in 1..(i - 1) : q[j].characterId # c) - 1
  ELSE 0

\* getQueuePosition: 1-based index, null (0) when absent
getQueuePosition(q, c) ==
  IF InQueue(q, c)
  THEN CHOOSE i \in 1..Len(q) :
         q[i].characterId = c /\ \A j \in 1..(i - 1) : q[j].characterId # c
  ELSE 0

(***************************************************************************)
(* startBattle: reads both records, simulates, saves the log.  A missing   *)
(* record makes simulateBattle throw on its first line (JSON.parse of      *)
(* undefined) before anything is drawn or written.  The result of          *)
(* saveBattleResult is not looked at, so a failed write only loses the log.*)
(***************************************************************************)
startBattle(c1, c2, store, logs, nextId, writeOk) ==
  IF c1 \notin store \/ c2 \notin store
  THEN [threw |-> TRUE, id |-> 0, battlelogs |-> logs, nextBattleId |-> nextId]
  ELSE [threw |-> FALSE, id |-> nextId,
        battlelogs |-> IF writeOk THEN logs \cup {nextId} ELSE logs,
        nextBattleId |-> nextId + 1]

\* the opponent findMatch picks: the first entry of another character and
\* another player; 0 when there is none
isOpponent_AnyPlayer(e, characterId, playerId) ==
  e.characterId # characterId

isOpponent_SamePlayer(e, characterId, playerId) ==
  e.characterId # characterId /\ e.playerId = playerId

isOpponent(e, characterId, playerId) ==
  e.characterId # characterId /\ e.playerId # playerId

\* the opponent entry: matchmakingQueue.find(...), NoEntry for undefined
NoEntry == [characterId |-> 0, playerId |-> 0, timestamp |-> 0]

opponentEntry_OldestStamp(q, characterId, playerId) ==
  IF \E i \in 1..Len(q) : isOpponent(q[i], characterId, playerId)
  THEN q[CHOOSE i \in 1..Len(q) :
           /\ isOpponent(q[i], characterId, playerId)
           /\ \A j \in 1..Len(q) :
                 isOpponent(q[j], characterId, playerId)
                   => \/ q[i].timestamp < q[j].timestamp
                      \/ q[i].timestamp = q[j].timestamp /\ i <= j]
  ELSE NoEntry

opponentEntry(q, characterId, playerId) ==
  IF \E i \in 1..Len(q) : isOpponent(q[i], characterId, playerId)
  THEN q[CHOOSE i \in 1..Len(q) :
           /\ isOpponent(q[i], characterId, playerId)
           /\ \A j \in 1..(i - 1) : ~isOpponent(q[j], characterId, playerId)]
  ELSE NoEntry

opponentOf(q, characterId, playerId) == opponentEntry(q, characterId, playerId).characterId

withoutPair_CallerOnly(q, characterId, opp) ==
  SelectSeq(q, LAMBDA e : e.characterId # characterId)

\* the waiting list without the two paired characters
withoutPair(q, characterId, opp) ==
  SelectSeq(q, LAMBDA e : e.characterId # characterId /\ e.characterId # opp)

(***************************************************************************)
(* findMatch                                                               *)
(***************************************************************************)
findMatch(q, pend, store, logs, nextId, characterId, playerId, writeOk) ==
  LET opp == opponentOf(q, characterId, playerId)
      q2 == withoutPair(q, characterId, opp)
      stamp == opponentEntry(q, characterId, playerId).timestamp
      b == startBattle(characterId, opp, store, logs, nextId, writeOk)
  IN IF opp = 0
     THEN [queue |-> q, pending |-> pend, battlelogs |-> logs, nextBattleId |-> nextId,
           match |-> NoMatch, threw |-> FALSE, opponent |-> 0, battles |-> 0,
           stamp |-> 0]
     ELSE IF b.threw
     THEN [queue |-> q2, pending |-> pend, battlelogs |-> b.battlelogs,
           nextBattleId |-> b.nextBattleId,
           match |-> NoMatch, threw |-> TRUE, opponent |-> opp, battles |-> 0,
           stamp |-> stamp]
     ELSE [queue |-> q2,
           pending |-> [pend EXCEPT ![opp] = [opponentId |-> characterId, battleId |-> b.id]],
           battlelogs |-> b.battlelogs, nextBattleId |-> b.nextBattleId,
           match |-> [opponentId |-> opp, battleId |-> b.id],
           threw |-> FALSE, opponent |-> opp, battles |-> 1, stamp |-> stamp]

takeNotification_Kept(pend, c) == pend

\* the consuming read both handlers start with:
\*   const match = pending[c]; delete pending[c]
takeNotification(pend, c) == [pend EXCEPT ![c] = NoMatch]

\* the guard that keeps the uuid counter inside the model
CanPair(q, c) == opponentOf(q, c, Owner(c)) # 0 => nextBattleId <= MaxBattles

refreshEntry_Requeue(q, c, now) ==
  Append(q, [characterId |-> c, playerId |-> Owner(c), timestamp |-> now])

\* existingEntry.timestamp = now, existingEntry being the first entry of c
refreshEntry(q, c, now) ==
  [i \in 1..Len(q) |->
     IF q[i].characterId = c /\ i = getQueuePosition(q, c)
     THEN [q[i] EXCEPT !.timestamp = now]
     ELSE q[i]]

(***************************************************************************)
(* POST /api/battles/queue -> addToQueue(characterId, session player)      *)
(***************************************************************************)
addToQueueCall(c, now, writeOk) ==
  /\ c \in characters
  /\ IF pendingMatchNotifications[c] # NoMatch
     THEN /\ now = 0 /\ writeOk            \* neither is read on this path
          /\ pendingMatchNotifications' = takeNotification(pendingMatchNotifications, c)
          /\ lastCall' = [NoCall EXCEPT !.op = "addToQueue", !.characterId = c,
                                        !.match = pendingMatchNotifications[c],
                                        !.message = "Match found!"]
          /\ UNCHANGED <<matchmakingQueue, battlelogs, nextBattleId>>
     ELSE IF InQueue(matchmakingQueue, c)
     THEN /\ writeOk                        \* not read on this path
          /\ matchmakingQueue' = refreshEntry(matchmakingQueue, c, now)
          /\ lastCall' = [NoCall EXCEPT !.op = "addToQueue", !.characterId = c,
                                        !.queuePosition = getQueuePosition(matchmakingQueue', c),
                                        !.message = "Still searching for opponent..."]
          /\ UNCHANGED <<pendingMatchNotifications, battlelogs, nextBattleId>>
     ELSE LET q1 == Append(matchmakingQueue,
                           [characterId |-> c, playerId |-> Owner(c), timestamp |-> now])
              r == findMatch(q1, pendingMatchNotifications, characters, battlelogs,
                             nextBattleId, c, Owner(c), writeOk)
          IN /\ CanPair(q1, c)
             /\ r.battles = 0 => writeOk     \* read only when a battle is saved
             /\ r.opponent # 0 => now = 0    \* the new entry is dropped at once
             /\ matchmakingQueue' = r.queue
             /\ pendingMatchNotifications' = r.pending
             /\ battlelogs' = r.battlelogs
             /\ nextBattleId' = r.nextBattleId
             /\ lastCall' = [NoCall EXCEPT !.op = "addToQueue", !.characterId = c,
                               !.match = r.match, !.threw = r.threw,
                               !.opponent = r.opponent, !.battles = r.battles,
                               !.stamp = r.stamp,
                               !.queuePosition =
                                  IF r.match # NoMatch \/ r.threw THEN 0
                                  ELSE getQueuePosition(r.queue, c),
                               !.message =
                                  IF r.threw THEN ""
                                  ELSE IF r.match # NoMatch THEN "Match found!"
                                  ELSE "Added to queue. Searching for opponent..."]
  /\ UNCHANGED characters

addToQueue(c, now, writeOk) ==
  /\ addToQueueCall(c, now, writeOk)
  /\ UNCHANGED <<progress, battleResult>>
  /\ UNCHANGED bvars

(***************************************************************************)
(* DELETE /api/battles/queue/:characterId -> removeFromQueue               *)
(***************************************************************************)
withoutNotification_Kept(pend, c) == pend

\* delete pendingMatchNotifications[characterId]
withoutNotification(pend, c) == [pend EXCEPT ![c] = NoMatch]

removeFromQueueCall(c) ==
  /\ c \in characters
  /\ matchmakingQueue' = SelectSeq(matchmakingQueue, LAMBDA e : e.characterId # c)
  /\ pendingMatchNotifications' = withoutNotification(pendingMatchNotifications, c)
  /\ lastCall' = [NoCall EXCEPT !.op = "removeFromQueue", !.characterId = c,
                    !.removed = Len(matchmakingQueue) > Len(matchmakingQueue'),
                    !.dropped = pendingMatchNotifications[c]]
  /\ UNCHANGED <<characters, battlelogs, nextBattleId>>

removeFromQueue(c) ==
  /\ removeFromQueueCall(c)
  /\ UNCHANGED <<progress, battleResult>>
  /\ UNCHANGED bvars

(***************************************************************************)
(* GET /api/battles/queue/:characterId -> checkQueueStatus                 *)
(***************************************************************************)
checkQueueStatusCall(c, writeOk) ==
  /\ c \in characters
  /\ IF pendingMatchNotifications[c] # NoMatch
     THEN /\ writeOk                        \* not read on this path
          /\ pendingMatchNotifications' = takeNotification(pendingMatchNotifications, c)
          /\ lastCall' = [NoCall EXCEPT !.op = "checkQueueStatus", !.characterId = c,
                                        !.match = pendingMatchNotifications[c]]
          /\ UNCHANGED <<matchmakingQueue, battlelogs, nextBattleId>>
     ELSE IF ~InQueue(matchmakingQueue, c)
     THEN /\ writeOk                        \* not read on this path
          /\ lastCall' = [NoCall EXCEPT !.op = "checkQueueStatus", !.characterId = c]
          /\ UNCHANGED <<matchmakingQueue, pendingMatchNotifications, battlelogs,
                         nextBattleId>>
     ELSE LET r == findMatch(matchmakingQueue, pendingMatchNotifications, characters,
                             battlelogs, nextBattleId, c, Owner(c), writeOk)
          IN /\ CanPair(matchmakingQueue, c)
             /\ r.battles = 0 => writeOk     \* read only when a battle is saved
             /\ matchmakingQueue' = r.queue
             /\ pendingMatchNotifications' = r.pending
             /\ battlelogs' = r.battlelogs
             /\ nextBattleId' = r.nextBattleId
             /\ lastCall' = [NoCall EXCEPT !.op = "checkQueueStatus", !.characterId = c,
                               !.match = r.match, !.threw = r.threw,
                               !.opponent = r.opponent, !.battles = r.battles,
                               !.stamp = r.stamp,
                               !.inQueue = (r.match = NoMatch /\ ~r.threw),
                               !.queuePosition =
                                  IF r.match # NoMatch \/ r.threw THEN 0
                                  ELSE getQueuePosition(r.queue, c)]
  /\ UNCHANGED characters

checkQueueStatus(c, writeOk) ==
  /\ checkQueueStatusCall(c, writeOk)
  /\ UNCHANGED <<progress, battleResult>>
  /\ UNCHANGED bvars

(***************************************************************************)
(* DELETE /api/characters/:id: the record goes; the queue is not told.     *)
(* Only the deletion of a character that is waiting or has a notification  *)
(* is a step: deleting any other character just ends that character's      *)
(* calls, and the runs in which it never calls again already cover that.   *)
(***************************************************************************)
deleteCharacter(c) ==
  /\ c \in characters
  /\ InQueue(matchmakingQueue, c) \/ pendingMatchNotifications[c] # NoMatch
  /\ Cardinality(CharIds \ characters) < MaxDeleted
  /\ characters' = characters \ {c}
  /\ lastCall' = [NoCall EXCEPT !.op = "deleteCharacter", !.characterId = c]
  /\ UNCHANGED <<matchmakingQueue, pendingMatchNotifications, battlelogs, nextBattleId,
                 progress, battleResult>>
  /\ UNCHANGED bvars

(***************************************************************************)
(* Battle engine: data.                                                    *)
(*                                                                         *)
(* An absent optional field of an ability (manaCost, damageMultiplier,     *)
(* selfDamagePercent, ...) is 0, which the code's `x || default` and `!x`  *)
(* treat like an absent one; an absent effect object has present = FALSE.  *)
(***************************************************************************)
TicksPerSecond == 10
maxBattleTime == 300

NoBuffEffect == [present |-> FALSE, type |-> "none", amount |-> 0, duration |-> 0,
                 targetsSelf |-> TRUE, magicDamageScaling |-> FALSE,
                 scalingRate |-> 0, baseAmount |-> 0, maxAmount |-> 0]
NoHealEffect == [present |-> FALSE, multiplier |-> 0]
NoDotEffect == [present |-> FALSE, type |-> "none", damage |-> 0, duration |-> 0,
                interval |-> 0]
NoPeriodicEffect == [present |-> FALSE, type |-> "none", amount |-> 0, duration |-> 0,
                     interval |-> 0]
NoMultiAttack == [present |-> FALSE, count |-> 0, delay |-> 0]
NoCriticalEffect == [present |-> FALSE, type |-> "none", damagePercent |-> 0,
                     duration |-> 0, interval |-> 0]

NoAbility ==
  [id |-> "none", name |-> "none", type |-> "physical", cooldown |-> 0, manaCost |-> 0,
   damage |-> "none", damageMultiplier |-> 0, guaranteedCrit |-> FALSE,
   selfDamagePercent |-> 0, baseCritBonus |-> 0,
   buffEffect |-> NoBuffEffect, healEffect |-> NoHealEffect, dotEffect |-> NoDotEffect,
   periodicEffect |-> NoPeriodicEffect, multiAttack |-> NoMultiAttack,
   criticalEffect |-> NoCriticalEffect]

\* abilities.json: the catalogue the battles below are fought with.  Times
\* in ticks, multipliers and rates in percent.
Abilities ==
  { [NoAbility EXCEPT !.id = "strike", !.name = "Strike", !.cooldown = 30,
                      !.damage = "physical"],
    [NoAbility EXCEPT !.id = "fireball", !.name = "Fireball", !.type = "magic",
                      !.cooldown = 40, !.manaCost = 20, !.damage = "magic",
                      !.damageMultiplier = 150,
                      !.criticalEffect = [present |-> TRUE, type |-> "burning",
                                          damagePercent |-> 50, duration |-> 100,
                                          interval |-> 20]],
    [NoAbility EXCEPT !.id = "chaosbolt", !.name = "Chaos Bolt", !.type = "magic",
                      !.cooldown = 60, !.manaCost = 15, !.damage = "magic",
                      !.selfDamagePercent = 50],
    [NoAbility EXCEPT !.id = "shield", !.name = "Shield Wall", !.cooldown = 350,
                      !.buffEffect = [NoBuffEffect EXCEPT !.present = TRUE,
                                        !.type = "physicalReduction", !.amount = 70,
                                        !.duration = 250]],
    [NoAbility EXCEPT !.id = "bulwark", !.name = "Bulwark", !.cooldown = 50,
                      !.buffEffect = [NoBuffEffect EXCEPT !.present = TRUE,
                                        !.type = "physicalReduction", !.amount = 30,
                                        !.duration = 40]],
    [NoAbility EXCEPT !.id = "ward", !.name = "Arcane Ward", !.type = "magic",
                      !.cooldown = 50, !.manaCost = 10,
                      !.buffEffect = [NoBuffEffect EXCEPT !.present = TRUE,
                                        !.type = "magicReduction",
                                        !.magicDamageScaling = TRUE,
                                        !.scalingRate = 100, !.baseAmount = 30,
                                        !.maxAmount = 40, !.duration = 60]],
    [NoAbility EXCEPT !.id = "rage", !.name = "Rage", !.cooldown = 100,
                      !.buffEffect = [NoBuffEffect EXCEPT !.present = TRUE,
                                        !.type = "damageIncrease", !.amount = 50,
                                        !.duration = 60]],
    [NoAbility EXCEPT !.id = "slow", !.name = "Crippling Shot", !.cooldown = 150,
                      !.buffEffect = [NoBuffEffect EXCEPT !.present = TRUE,
                                        !.type = "attackSpeedReduction", !.amount = 50,
                                        !.duration = 100, !.targetsSelf = FALSE]],
    [NoAbility EXCEPT !.id = "heal", !.name = "Heal", !.type = "magic",
                      !.cooldown = 60, !.manaCost = 20,
                      !.healEffect = [present |-> TRUE, multiplier |-> 100]],
    [NoAbility EXCEPT !.id = "poison", !.name = "Poison Strike", !.cooldown = 40,
                      !.damage = "physical",
                      !.dotEffect = [present |-> TRUE, type |-> "poison", damage |-> 2,
                                     duration |-> 60, interval |-> 20]],
    [NoAbility EXCEPT !.id = "venom", !.name = "Venom", !.cooldown = 100,
                      !.dotEffect = [present |-> TRUE, type |-> "poison", damage |-> 10,
                                     duration |-> 60, interval |-> 20]],
    [NoAbility EXCEPT !.id = "drain", !.name = "Mana Drain", !.type = "magic",
                      !.cooldown = 50, !.manaCost = 10,
                      !.periodicEffect = [present |-> TRUE, type |-> "manaDrain",
                                          amount |-> 30, duration |-> 300,
                                          interval |-> 20]],
    [NoAbility EXCEPT !.id = "backstab", !.name = "Backstab", !.cooldown = 60,
                      !.damage = "physical", !.guaranteedCrit = TRUE],
    [NoAbility EXCEPT !.id = "flurry", !.name = "Flurry", !.cooldown = 80,
                      !.damage = "physical",
                      !.multiAttack = [present |-> TRUE, count |-> 2, delay |-> 5]],
    [NoAbility EXCEPT !.id = "barrage", !.name = "Arcane Barrage", !.type = "magic",
                      !.cooldown = 80, !.damage = "magic",
                      !.multiAttack = [present |-> TRUE, count |-> 3, delay |-> 3]],
    [NoAbility EXCEPT !.id = "reckless", !.name = "Reckless Strike", !.cooldown = 30,
                      !.damage = "physical", !.selfDamagePercent = 50],
    [NoAbility EXCEPT !.id = "warcry", !.name = "War Cry", !.cooldown = 100,
                      !.damage = "physical",
                      !.buffEffect = [NoBuffEffect EXCEPT !.present = TRUE,
                                        !.type = "attackSpeedReduction", !.amount = 50,
                                        !.duration = 60],
                      !.multiAttack = [present |-> TRUE, count |-> 3, delay |-> 5]],
    [NoAbility EXCEPT !.id = "hex", !.name = "Hex", !.type = "magic", !.cooldown = 100,
                      !.periodicEffect = [present |-> TRUE, type |-> "curse",
                                          amount |-> 5, duration |-> 60,
                                          interval |-> 20]],
    [NoAbility EXCEPT !.id = "brand", !.name = "Brand", !.type = "magic", !.cooldown = 20,
                      !.dotEffect = [present |-> TRUE, type |-> "burning", damage |-> 3,
                                     duration |-> 100, interval |-> 50]],
    [NoAbility EXCEPT !.id = "mend", !.name = "Mend", !.type = "magic", !.cooldown = 350,
                      !.periodicEffect = [present |-> TRUE, type |-> "regeneration",
                                          amount |-> 4, duration |-> 300,
                                          interval |-> 20]],
    [NoAbility EXCEPT !.id = "renew", !.name = "Renew", !.type = "magic",
                      !.cooldown = 350,
                      !.periodicEffect = [present |-> TRUE, type |-> "manaRegen",
                                          amount |-> 15, duration |-> 300,
                                          interval |-> 20]] }

AbilityIds == {ab.id : ab \in Abilities}

\* an id a rotation can still hold after its ability left the catalogue
RotationIds == AbilityIds \cup {"ghost"}

getAbility_OrStrike(abilityId) ==
  CHOOSE ab \in Abilities :
    ab.id = IF abilityId \in AbilityIds THEN abilityId ELSE "strike"

\* getAbility: abilities.find(a => a.id === abilityId); NoAbility for undefined
getAbility(abilityId) ==
  IF abilityId \in AbilityIds THEN CHOOSE ab \in Abilities : ab.id = abilityId
  ELSE NoAbility

\* getAbilityByName: abilities.find(a => a.name === name)
getAbilityByName(name) ==
  IF \E ab \in Abilities : ab.name = name THEN CHOOSE ab \in Abilities : ab.name = name
  ELSE NoAbility

(***************************************************************************)
(* battle-utils                                                            *)
(***************************************************************************)
\* Math.random() * 100, by its two extremes
RandomPercents == {0, 99}

\* calculateCritical: Math.random() * 100 <= critChance
calculateCritical(critChance, u) == u <= critChance

applyDamageReduction_NoCap(baseDamage, damageReduction) ==
  Max(1, Round(baseDamage * (100 - damageReduction), 100))

applyDamageReduction_NoFloor(baseDamage, damageReduction) ==
  Round(baseDamage * (100 - Min(80, damageReduction)), 100)

\* applyDamageReduction(baseDamage, damageReduction in percent)
applyDamageReduction(baseDamage, damageReduction) ==
  LET reductionMultiplier == Min(80, damageReduction)
  IN Max(1, Round(baseDamage * (100 - reductionMultiplier), 100))

hasEnoughMana_Always(character, ability) == TRUE

\* hasEnoughMana
hasEnoughMana(character, ability) ==
  ability.manaCost = 0 \/ character.currentMana >= ability.manaCost

\* the product of (1 + amount / 100) over the buffs of one type, as a fraction
RECURSIVE BuffProduct(_, _)
BuffProduct(buffs, type) ==
  IF buffs = <<>> THEN [num |-> 1, den |-> 1]
  ELSE LET rest == BuffProduct(Tail(buffs), type)
       IN IF Head(buffs).type = type
          THEN [num |-> rest.num * (100 + Head(buffs).amount), den |-> rest.den * 100]
          ELSE rest

\* getEffectiveAttackSpeed
getEffectiveAttackSpeed(character) ==
  LET attackSpeedModifier == BuffProduct(character.buffs, "attackSpeedReduction")
  IN (character.stats.attackSpeed * attackSpeedModifier.num) \div attackSpeedModifier.den

(***************************************************************************)
(* createBattleState (character-model): the record plus the combat fields. *)
(***************************************************************************)
createBattleState(character) ==
  [id |-> character.id, name |-> character.name, stats |-> character.stats,
   rotation |-> character.rotation, attackType |-> character.attackType,
   currentHealth |-> character.stats.health,
   currentMana |-> character.stats.mana,
   cooldowns |-> [a \in RotationIds |-> 0],
   periodicEffects |-> <<>>,
   buffs |-> <<>>,
   nextAbilityIndex |-> 0]

(***************************************************************************)
(* Attacks.  An exchange x = [attacker, defender, hits, drains, heals] is   *)
(* threaded through the handlers: the two combatants as the handler leaves *)
(* them, and what it did to them (each hit it landed, each mana drain and  *)
(* each heal it made).                                                     *)
(* A draw rnd = [roll, crit] holds the two values of Math.random() * 100   *)
(* that one attack consumes.                                               *)
(***************************************************************************)
Exchange(attacker, defender) ==
  [attacker |-> attacker, defender |-> defender, hits |-> <<>>, drains |-> <<>>,
   heals |-> <<>>]

\* randomInt: Math.floor(Math.random() * (max - min + 1)) + min
randomInt(min, max, p) == ((p * (max - min + 1)) \div 100) + min

\* attacker.buffs.forEach(damageIncrease): baseDamage = round(baseDamage * (1 + amount/100))
RECURSIVE applyDamageBuffs(_, _)
applyDamageBuffs(baseDamage, buffs) ==
  IF buffs = <<>> THEN baseDamage
  ELSE applyDamageBuffs(
         IF Head(buffs).type = "damageIncrease"
         THEN Round(baseDamage * (100 + Head(buffs).amount), 100)
         ELSE baseDamage,
         Tail(buffs))

\* defender.buffs.forEach(type): damageReduction += amount / 100
RECURSIVE sumReduction(_, _)
sumReduction(buffs, type) ==
  IF buffs = <<>> THEN 0
  ELSE (IF Head(buffs).type = type THEN Head(buffs).amount ELSE 0)
       + sumReduction(Tail(buffs), type)

\* the common tail of both attacks: reduce, subtract from the defender, report
landHit(x, time, baseDamage, isCrit, damageReduction, kind) ==
  LET finalDamage == applyDamageReduction(baseDamage, damageReduction)
  IN [x EXCEPT !.defender.currentHealth = @ - finalDamage,
               !.hits = Append(@, [time |-> time,
                                   damage |-> finalDamage, isCritical |-> isCrit,
                                   baseDamage |-> baseDamage, kind |-> kind,
                                   reduction |-> damageReduction,
                                   healthBefore |-> x.defender.currentHealth,
                                   healthAfter |-> x.defender.currentHealth - finalDamage])]

\* performPhysicalAttack
performPhysicalAttack(x, time, multiplier, guaranteedCrit, rnd) ==
  LET rolled == randomInt(x.attacker.stats.minPhysicalDamage,
                          x.attacker.stats.maxPhysicalDamage, rnd.roll)
      buffed == applyDamageBuffs(Round(rolled * multiplier, 100), x.attacker.buffs)
      isCrit == IF guaranteedCrit THEN TRUE
                ELSE calculateCritical(x.attacker.stats.criticalChance, rnd.crit)
      baseDamage == IF isCrit THEN buffed * 2 ELSE buffed
      damageReduction == x.defender.stats.physicalDamageReduction
                         + sumReduction(x.defender.buffs, "physicalReduction")
  IN landHit(x, time, baseDamage, isCrit, damageReduction, "physical")

\* performMagicAttack; the ability named attackName may add baseCritBonus
performMagicAttack(x, time, attackName, multiplier, rnd) ==
  LET rolled == randomInt(x.attacker.stats.minMagicDamage,
                          x.attacker.stats.maxMagicDamage, rnd.roll)
      buffed == applyDamageBuffs(Round(rolled * multiplier, 100), x.attacker.buffs)
      critChance == x.attacker.stats.spellCritChance
                    + getAbilityByName(attackName).baseCritBonus
      isCrit == calculateCritical(critChance, rnd.crit)
      baseDamage == IF isCrit THEN buffed * 2 ELSE buffed
      damageReduction == x.defender.stats.magicDamageReduction
                         + sumReduction(x.defender.buffs, "magicReduction")
  IN landHit(x, time, baseDamage, isCrit, damageReduction, "magic")

\* performBasicAttack
performBasicAttack(x, time, rnd) ==
  IF x.attacker.attackType = "magic"
  THEN performMagicAttack(x, time, "Basic Magic Attack", 100, rnd)
  ELSE performPhysicalAttack(x, time, 100, FALSE, rnd)

(***************************************************************************)
(* Buffs, periodic effects, heals.                                         *)
(***************************************************************************)
NoEffect == [name |-> "", type |-> "none", damage |-> 0, amount |-> 0, duration |-> 0,
             interval |-> 0, lastProcTime |-> 0, endTime |-> 0, sourceName |-> ""]

\* the index of the first entry of a type, 0 if there is none: list.find(e => e.type === type)
findType(list, type) ==
  IF \E i \in 1..Len(list) : list[i].type = type
  THEN CHOOSE i \in 1..Len(list) :
         list[i].type = type /\ \A j \in 1..(i - 1) : list[j].type # type
  ELSE 0

applyBuff_Stack(character, time, buff) ==
  [character EXCEPT !.buffs = Append(@, buff)]

\* applyBuff
applyBuff(character, time, buff) ==
  LET i == findType(character.buffs, buff.type)
  IN IF i # 0
     THEN [character EXCEPT !.buffs[i].endTime = time + buff.duration]
     ELSE [character EXCEPT !.buffs = Append(@, buff)]

applyPeriodicEffect_KeepProcTime(source, target, time, effect) ==
  LET i == findType(target.periodicEffects, effect.type)
  IN IF i # 0
     THEN [target EXCEPT !.periodicEffects[i].endTime = time + effect.duration]
     ELSE [target EXCEPT !.periodicEffects =
                            Append(@, [effect EXCEPT !.sourceName = source.name])]

\* applyPeriodicEffect
applyPeriodicEffect(source, target, time, effect) ==
  LET i == findType(target.periodicEffects, effect.type)
  IN IF i # 0
     THEN [target EXCEPT !.periodicEffects[i].endTime = time + effect.duration,
                         !.periodicEffects[i].lastProcTime = time]
     ELSE [target EXCEPT !.periodicEffects =
                            Append(@, [effect EXCEPT !.sourceName = source.name])]

\* (minMagicDamage + maxMagicDamage) / 2 * percent / 100, rounded
avgMagicScaled(character, percent) ==
  Round((character.stats.minMagicDamage + character.stats.maxMagicDamage) * percent, 200)

applyHeal_Uncapped(character, healEffect) ==
  [character EXCEPT
     !.currentHealth = @ + avgMagicScaled(character, healEffect.multiplier)]

\* applyHeal: the character it leaves
applyHeal(character, healEffect) ==
  LET healAmount == avgMagicScaled(character, healEffect.multiplier)
  IN [character EXCEPT
        !.currentHealth = Min(character.stats.health, character.currentHealth + healAmount)]

\* applyHeal: healAmount, previousHealth and the actualHeal it logs and returns
healRecord(character, healed, healEffect) ==
  [healAmount |-> avgMagicScaled(character, healEffect.multiplier),
   previousHealth |-> character.currentHealth,
   maxHealth |-> character.stats.health,
   actualHeal |-> healed.currentHealth - character.currentHealth]

(***************************************************************************)
(* Ability handlers.  rnd is the sequence of draws of the attacks made.    *)
(***************************************************************************)
\* JavaScript's v || default on a number
OrDefault(v, default) == IF v = 0 THEN default ELSE v

\* what one mana-drain transfer did
drainRecord(target, source, sourceAfter, amount, manaDrained) ==
  [amount |-> amount, targetManaBefore |-> target.currentMana, drained |-> manaDrained,
   sourceManaBefore |-> source.currentMana, sourceManaAfter |-> sourceAfter.currentMana,
   sourceMax |-> source.stats.mana]

\* one hit of a multi-attack at hitTime; it is named `${ability.name} (Hit n)`,
\* which is the name of no ability for getAbilityByName to find
multiHit(x, hitTime, ability, rnd) ==
  IF ability.damage = "magic"
  THEN performMagicAttack(x, hitTime, "hit of a multi-attack",
                          OrDefault(ability.damageMultiplier, 100), rnd)
  ELSE performPhysicalAttack(x, hitTime, OrDefault(ability.damageMultiplier, 100),
                             FALSE, rnd)

defeated_Never(defender) == FALSE

\* the loop's break condition: defender.currentHealth <= 0
defeated(defender) == defender.currentHealth <= 0

\* the loop of processMultiAttackAbility from its index i on (hit i + 1), at
\* hitTime = time + 0.1 + (i * attackDelay)
RECURSIVE multiHitsFrom(_, _, _, _, _, _, _)
multiHitsFrom(x, time, ability, rnd, i, attackCount, attackDelay) ==
  IF ~(i < attackCount) \/ defeated(x.defender) THEN x
  ELSE The({ multiHitsFrom(y, time, ability, rnd, i + 1, attackCount, attackDelay) :
             y \in { multiHit(x, time + 1 + (i * attackDelay), ability, rnd[i + 1]) } })

\* processMultiAttackAbility: the first hit at time + 0.1, then the loop
processMultiAttackAbility(x, time, ability, rnd) ==
  LET attackCount == OrDefault(ability.multiAttack.count, 2)
      attackDelay == OrDefault(ability.multiAttack.delay, 5)
  IN The({ multiHitsFrom(y, time, ability, rnd, 1, attackCount, attackDelay) :
           y \in { multiHit(x, time + 1, ability, rnd[1]) } })

\* processBuffAbility
processBuffAbility(x, time, ability) ==
  LET e == ability.buffEffect
      buffAmount ==
        IF e.magicDamageScaling
        THEN Min(OrDefault(e.maxAmount, 35),
                 OrDefault(e.baseAmount, 15)
                   + avgMagicScaled(x.attacker, OrDefault(e.scalingRate, 20)))
        ELSE e.amount
      buff == [name |-> ability.name, type |-> e.type, amount |-> buffAmount,
               duration |-> e.duration, endTime |-> time + e.duration]
  IN IF e.targetsSelf
     THEN [x EXCEPT !.attacker = applyBuff(x.attacker, time, buff)]
     ELSE [x EXCEPT !.defender = applyBuff(x.defender, time, buff)]

\* processHealAbility
processHealAbility(x, ability) ==
  The({ [x EXCEPT !.attacker = healed,
                  !.heals = Append(@, healRecord(x.attacker, healed, ability.healEffect))] :
        healed \in { applyHeal(x.attacker, ability.healEffect) } })

\* ability.dotEffect.type.charAt(0).toUpperCase() + ability.dotEffect.type.slice(1)
capitalize(type) ==
  CASE type = "poison" -> "Poison"
    [] type = "burning" -> "Burning"
    [] type = "manaDrain" -> "ManaDrain"
    [] type = "regeneration" -> "Regeneration"
    [] type = "manaRegen" -> "ManaRegen"
    [] OTHER -> type

\* processDotAbility
processDotAbility(x, time, ability, rnd) ==
  LET e == ability.dotEffect
      effect == [NoEffect EXCEPT !.name = capitalize(e.type), !.type = e.type,
                                 !.damage = e.damage, !.duration = e.duration,
                                 !.interval = OrDefault(e.interval, TicksPerSecond),
                                 !.lastProcTime = time, !.endTime = time + e.duration]
  IN The({ [y EXCEPT !.defender = applyPeriodicEffect(y.attacker, y.defender, time, effect)] :
           y \in { IF ability.damage = "physical"
                   THEN performPhysicalAttack(x, time,
                                              OrDefault(ability.damageMultiplier, 110),
                                              FALSE, rnd[1])
                   ELSE IF ability.damage = "magic"
                   THEN performMagicAttack(x, time, ability.name,
                                           OrDefault(ability.damageMultiplier, 110), rnd[1])
                   ELSE x } })

\* processPeriodicAbility
processPeriodicAbility(x, time, ability) ==
  LET e == ability.periodicEffect
      effect == [NoEffect EXCEPT !.name = ability.name, !.type = e.type,
                                 !.amount = e.amount, !.duration = e.duration,
                                 !.interval = e.interval,
                                 !.lastProcTime = time, !.endTime = time + e.duration]
      target == applyPeriodicEffect(x.attacker, x.defender, time, effect)
      manaDrained == Min(target.currentMana, e.amount)
      gained == [x.attacker EXCEPT
                   !.currentMana = Min(x.attacker.stats.mana, x.attacker.currentMana + e.amount)]
  IN IF e.type = "manaDrain"
     THEN [x EXCEPT !.defender = [target EXCEPT !.currentMana = @ - manaDrained],
                    !.attacker = gained,
                    !.drains = Append(@, drainRecord(target, x.attacker, gained,
                                                     e.amount, manaDrained))]
     ELSE [x EXCEPT !.defender = target]

\* processDamageAbility
processDamageAbility(x, time, ability, rnd) ==
  IF ability.damage = "physical"
  THEN performPhysicalAttack(x, time, OrDefault(ability.damageMultiplier, 100),
                             FALSE, rnd[1])
  ELSE IF ability.damage = "magic"
  THEN The({
         LET attackResult == y.hits[Len(y.hits)]
             selfDamage == IF ability.selfDamagePercent # 0 /\ attackResult.damage > 0
                           THEN Round(attackResult.damage * ability.selfDamagePercent, 100)
                           ELSE 0
             z == IF selfDamage > 0
                  THEN [y EXCEPT !.attacker.currentHealth = @ - selfDamage]
                  ELSE y
             c == ability.criticalEffect
             burning == [NoEffect EXCEPT !.name = "Burning", !.type = "burning",
                                         !.damage = avgMagicScaled(z.attacker, c.damagePercent),
                                         !.duration = c.duration,
                                         !.interval = OrDefault(c.interval, TicksPerSecond),
                                         !.lastProcTime = time,
                                         !.endTime = time + c.duration]
         IN IF c.present /\ attackResult.isCritical /\ c.type = "burning"
            THEN [z EXCEPT !.defender =
                             applyPeriodicEffect(z.attacker, z.defender, time, burning)]
            ELSE z :
         y \in { performMagicAttack(x, time, ability.name,
                                    OrDefault(ability.damageMultiplier, 150), rnd[1]) } })
  ELSE performBasicAttack(x, time, rnd[1])

abilityHandler_LastFlagFirst(ability) ==
  IF ability.multiAttack.present THEN "multiAttack"
  ELSE IF ability.guaranteedCrit THEN "guaranteedCrit"
  ELSE IF ability.periodicEffect.present THEN "periodic"
  ELSE IF ability.dotEffect.present THEN "dot"
  ELSE IF ability.healEffect.present THEN "heal"
  ELSE IF ability.buffEffect.present THEN "buff"
  ELSE "damage"

\* processAbility's choice of handler, first match first
abilityHandler(ability) ==
  IF ability.buffEffect.present THEN "buff"
  ELSE IF ability.healEffect.present THEN "heal"
  ELSE IF ability.dotEffect.present THEN "dot"
  ELSE IF ability.periodicEffect.present THEN "periodic"
  ELSE IF ability.guaranteedCrit THEN "guaranteedCrit"
  ELSE IF ability.multiAttack.present THEN "multiAttack"
  ELSE "damage"

\* processAbility
processAbility(x, time, ability, rnd) ==
  LET handler == abilityHandler(ability)
  IN CASE handler = "buff" -> processBuffAbility(x, time, ability)
       [] handler = "heal" -> processHealAbility(x, ability)
       [] handler = "dot" -> processDotAbility(x, time, ability, rnd)
       [] handler = "periodic" -> processPeriodicAbility(x, time, ability)
       [] handler = "guaranteedCrit" ->
            performPhysicalAttack(x, time, OrDefault(ability.damageMultiplier, 120),
                                  TRUE, rnd[1])
       [] handler = "multiAttack" -> processMultiAttackAbility(x, time, ability, rnd)
       [] OTHER -> processDamageAbility(x, time, ability, rnd)

usableAbility_AnyInRotation(attacker, time) ==
  LET ready == {i \in 1..Len(attacker.rotation) :
                  /\ time >= attacker.cooldowns[attacker.rotation[i]]
                  /\ getAbility(attacker.rotation[i]) # NoAbility
                  /\ hasEnoughMana(attacker, getAbility(attacker.rotation[i]))}
  IN IF ready = {} THEN NoAbility
     ELSE getAbility(attacker.rotation[CHOOSE i \in ready : \A j \in ready : i <= j])

usableAbility_StrictCooldown(attacker, time) ==
  IF Len(attacker.rotation) = 0 THEN NoAbility
  ELSE LET nextAbilityId == attacker.rotation[attacker.nextAbilityIndex + 1]
           ability == getAbility(nextAbilityId)
       IN IF time > attacker.cooldowns[nextAbilityId]
             /\ ability # NoAbility
             /\ hasEnoughMana(attacker, ability)
          THEN ability
          ELSE NoAbility

\* the ability processAttack uses at `time`, NoAbility when it falls back to
\* the basic attack (empty rotation, cooldown, unknown id, not enough mana)
usableAbility(attacker, time) ==
  IF Len(attacker.rotation) = 0 THEN NoAbility
  ELSE LET nextAbilityId == attacker.rotation[attacker.nextAbilityIndex + 1]
           ability == getAbility(nextAbilityId)
       IN IF time >= attacker.cooldowns[nextAbilityId]
             /\ ability # NoAbility
             /\ hasEnoughMana(attacker, ability)
          THEN ability
          ELSE NoAbility

nextIndex_NoWrap(attacker) == attacker.nextAbilityIndex + 1

\* (attacker.nextAbilityIndex + 1) % attacker.rotation.length
nextIndex(attacker) == (attacker.nextAbilityIndex + 1) % Len(attacker.rotation)

\* processAttack
processAttack(attacker, defender, time, rnd) ==
  The({ IF ability # NoAbility
        THEN LET paid == [attacker EXCEPT !.currentMana = @ - ability.manaCost,
                                          !.cooldowns[ability.id] = time + ability.cooldown]
             IN The({ [x EXCEPT !.attacker.nextAbilityIndex = nextIndex(x.attacker)] :
                      x \in { processAbility(Exchange(paid, defender), time, ability, rnd) } })
        ELSE performBasicAttack(Exchange(attacker, defender), time, rnd[1]) :
        ability \in { usableAbility(attacker, time) } })

\* the number of attacks processAttack can make at `time`
attacksOf(attacker, time) ==
  LET ability == usableAbility(attacker, time)
  IN IF ability # NoAbility /\ abilityHandler(ability) = "multiAttack"
     THEN OrDefault(ability.multiAttack.count, 2)
     ELSE 1

(***************************************************************************)
(* processEffects.  An effects pass fx = [character1, character2, drains,  *)
(* ticks, expired, lapsed] is threaded through the two combatants' effect  *)
(* lists; ticks are the periodic effects that ticked, expired the periodic *)
(* effects and lapsed the buffs whose expiry entry was logged.             *)
(***************************************************************************)
combatant(fx, k) == IF k = 1 THEN fx.character1 ELSE fx.character2

setCombatant(fx, k, c) ==
  IF k = 1 THEN [fx EXCEPT !.character1 = c] ELSE [fx EXCEPT !.character2 = c]

splice_KeepsEntry(list, i) == list

\* the index without its i-th entry: list.splice(i, 1)
splice(list, i) == SubSeq(list, 1, i - 1) \o SubSeq(list, i + 1, Len(list))

switchEffect_UnknownDrainsHealth(fx, k, i) ==
  LET character == combatant(fx, k)
      effect == character.periodicEffects[i]
  IN [fx |-> setCombatant(fx, k, [character EXCEPT !.currentHealth = @ - effect.amount]),
      lines |-> 1, source |-> 0]

\* the switch on effect.type for the i-th effect of combatant k: the pass
\* after the case taken, the number of log entries the case pushed (the
\* default case warns on the console and pushes none), and the combatant the
\* manaDrain case took for the source (0 in the other cases)
switchEffect(fx, k, i) ==
  LET character == combatant(fx, k)
      effect == character.periodicEffects[i]
      sk == IF effect.sourceName = fx.character1.name THEN 1 ELSE 2
      manaDrained == Min(character.currentMana, effect.amount)
      drainedFx == setCombatant(fx, k, [character EXCEPT !.currentMana = @ - manaDrained])
      source == combatant(drainedFx, sk)
      gained == [source EXCEPT
                   !.currentMana = Min(source.stats.mana, source.currentMana + effect.amount)]
  IN CASE effect.type \in {"poison", "burning"} ->
            [fx |-> setCombatant(fx, k,
                      [character EXCEPT !.currentHealth = @ - effect.damage]),
             lines |-> IF character.currentHealth - effect.damage <= 0 THEN 2 ELSE 1,
             source |-> 0]
       [] effect.type = "manaDrain" ->
            [fx |-> [setCombatant(drainedFx, sk, gained) EXCEPT
                       !.drains = Append(@, drainRecord(character, source, gained,
                                                        effect.amount, manaDrained))],
             lines |-> IF manaDrained > 0 THEN 2 ELSE 0,
             source |-> sk]
       [] effect.type = "regeneration" ->
            [fx |-> setCombatant(fx, k, [character EXCEPT
                      !.currentHealth = Min(character.stats.health,
                                            character.currentHealth + effect.amount)]),
             lines |-> 1, source |-> 0]
       [] effect.type = "manaRegen" ->
            [fx |-> setCombatant(fx, k, [character EXCEPT
                      !.currentMana = Min(character.stats.mana,
                                          character.currentMana + effect.amount)]),
             lines |-> 1, source |-> 0]
       [] OTHER -> [fx |-> fx, lines |-> 0, source |-> 0]

\* one tick of the i-th effect of combatant k: the switch, then
\* effect.lastProcTime = time
tickEffect(fx, k, i, time) ==
  LET effect == combatant(fx, k).periodicEffects[i]
  IN The({ [setCombatant(switched.fx, k,
              [combatant(switched.fx, k) EXCEPT !.periodicEffects[i].lastProcTime = time])
            EXCEPT !.ticks = Append(@, [on |-> k, type |-> effect.type, time |-> time,
                                        lastProcTime |-> effect.lastProcTime,
                                        endTime |-> effect.endTime,
                                        interval |-> effect.interval,
                                        amount |-> effect.amount,
                                        healthBefore |-> combatant(fx, k).currentHealth,
                                        healthAfter |->
                                          combatant(switched.fx, k).currentHealth,
                                        manaBefore |-> combatant(fx, k).currentMana,
                                        manaAfter |->
                                          combatant(switched.fx, k).currentMana,
                                        source |-> switched.source,
                                        lines |-> switched.lines])] :
           switched \in { switchEffect(fx, k, i) } })

ticksNow_AtExpiry(effect, time) ==
  time >= effect.lastProcTime + effect.interval /\ time <= effect.endTime

\* whether a periodic effect ticks at `time`
ticksNow(effect, time) ==
  time >= effect.lastProcTime + effect.interval /\ time < effect.endTime

\* the periodic-effect loop of processCharacterEffects, from index i down
RECURSIVE periodicFrom(_, _, _, _)
periodicFrom(fx, k, i, time) ==
  IF i = 0 THEN fx
  ELSE LET effect == combatant(fx, k).periodicEffects[i]
       IN The({ periodicFrom(swept, k, i - 1, time) :
                swept \in { IF time >= effect.endTime
                            THEN [setCombatant(ticked, k,
                                    [combatant(ticked, k) EXCEPT
                                       !.periodicEffects = splice(@, i)])
                                  EXCEPT !.expired = Append(@, [on |-> k,
                                                                type |-> effect.type,
                                                                time |-> time])]
                            ELSE ticked :
                            ticked \in { IF ticksNow(effect, time)
                                         THEN tickEffect(fx, k, i, time)
                                         ELSE fx } } })

\* the expiry entries of the buffs in `buffs` that the buff loop removes at `time`
RECURSIVE lapsedBuffs(_, _, _)
lapsedBuffs(buffs, k, time) ==
  IF buffs = <<>> THEN <<>>
  ELSE lapsedBuffs(Tail(buffs), k, time)
       \o (IF time >= Head(buffs).endTime
           THEN <<[on |-> k, type |-> Head(buffs).type, time |-> time]>>
           ELSE <<>>)

\* processCharacterEffects: the periodic effects, then the expired buffs
processCharacterEffects(fx, k, time) ==
  The({ [setCombatant(after, k,
           [combatant(after, k) EXCEPT
              !.buffs = SelectSeq(@, LAMBDA buff : ~(time >= buff.endTime))])
         EXCEPT !.lapsed = @ \o lapsedBuffs(combatant(after, k).buffs, k, time)] :
        after \in { periodicFrom(fx, k, Len(combatant(fx, k).periodicEffects), time) } })

\* processEffects
processEffects(bs, time) ==
  LET fx == [character1 |-> bs.character1, character2 |-> bs.character2,
             drains |-> <<>>, ticks |-> <<>>, expired |-> <<>>, lapsed |-> <<>>]
  IN The({ processCharacterEffects(first, 2, time) :
           first \in { processCharacterEffects(fx, 1, time) } })

(***************************************************************************)
(* simulateBattle's loop condition and determineWinner.                    *)
(***************************************************************************)
null == 0

battleContinues_NoTimeLimit(bs, time) ==
  bs.character1.currentHealth > 0 /\ bs.character2.currentHealth > 0

\* the while condition
battleContinues(bs, time) ==
  /\ bs.character1.currentHealth > 0
  /\ bs.character2.currentHealth > 0
  /\ time < maxBattleTime * TicksPerSecond

determineWinner_TieToFirst(bs) ==
  IF bs.character1.currentHealth <= 0 THEN bs.character2.id
  ELSE IF bs.character2.currentHealth <= 0 THEN bs.character1.id
  ELSE IF bs.character1.currentHealth * bs.character2.stats.health
            >= bs.character2.currentHealth * bs.character1.stats.health
       THEN bs.character1.id
       ELSE bs.character2.id

determineWinner_Survivor(bs) ==
  IF bs.character1.currentHealth <= 0 THEN bs.character2.currentHealth
  ELSE bs.character1.currentHealth

\* determineWinner: the winner it sets.  The health percentages
\* currentHealth / stats.health * 100 are compared by cross-multiplication.
determineWinner(bs) ==
  IF bs.character1.currentHealth <= 0 THEN bs.character2.id
  ELSE IF bs.character2.currentHealth <= 0 THEN bs.character1.id
  ELSE LET char1Health == bs.character1.currentHealth * bs.character2.stats.health
           char2Health == bs.character2.currentHealth * bs.character1.stats.health
       IN IF char1Health > char2Health THEN bs.character1.id
          ELSE IF char2Health > char1Health THEN bs.character2.id
          ELSE null

\* createLogEntry (battle-utils); time in ticks, the message as its parts
createLogEntry(time, message) == [time |-> time, message |-> message]

\* "Final state - <name>: <health> health, <mana> mana"; Math.floor leaves
\* the values as they are, health and mana being whole numbers
finalStateMessage(character) ==
  [text |-> "Final state", name |-> character.name,
   health |-> character.currentHealth, mana |-> character.currentMana]

logFinalState_OneStamp(bs, time) ==
  << createLogEntry(time + 1, finalStateMessage(bs.character1)),
     createLogEntry(time + 1, finalStateMessage(bs.character2)) >>

\* logFinalState: the two lines it appends, at battleTime + 0.1 and + 0.2
logFinalState(bs, time) ==
  << createLogEntry(time + 1, finalStateMessage(bs.character1)),
     createLogEntry(time + 2, finalStateMessage(bs.character2)) >>

\* determineWinner: the lines it appends to battleState.log, the outcome
\* line of the branch taken and then logFinalState's
determineWinnerLog(bs, time) ==
  LET won == determineWinner(bs)
      name == IF won = bs.character1.id THEN bs.character1.name ELSE bs.character2.name
      outcome ==
        IF bs.character1.currentHealth <= 0 \/ bs.character2.currentHealth <= 0
        THEN [text |-> "wins the battle!", name |-> name]
        ELSE IF won # null
        THEN [text |-> "Time limit reached! wins with more health remaining!",
              name |-> name]
        ELSE [text |-> "Time limit reached! Battle ended in a draw", name |-> ""]
  IN <<createLogEntry(time, outcome)>> \o logFinalState(bs, time)

(***************************************************************************)
(* The combatants.  Stats come from calculateStats; the attributes route   *)
(* checks only the total of the five attributes, so single attributes can  *)
(* be zero or negative.  strength, stamina and wisdom are even here, which *)
(* keeps every stat an integer.                                            *)
(***************************************************************************)
baseAttackTime == 10
minAttackTime == 2

\* calculateStats; attackSpeed in ticks
calculateStats(attributes) ==
  LET strength == attributes.strength
      agility == attributes.agility
      stamina == attributes.stamina
      intellect == attributes.intellect
      wisdom == attributes.wisdom
  IN [minPhysicalDamage |-> strength * 2,
      maxPhysicalDamage |-> (strength * 3) + agility,
      criticalChance |-> agility * 2,
      attackSpeed |-> Max(minAttackTime * TicksPerSecond,
                          baseAttackTime * TicksPerSecond
                            - (agility * TicksPerSecond) \div 2),
      minMagicDamage |-> intellect * 2,
      maxMagicDamage |-> (intellect * 2) + (wisdom * 3) \div 2,
      spellCritChance |-> intellect * 2,
      health |-> 100 + (stamina * 10),
      mana |-> 50 + (wisdom * 10),
      physicalDamageReduction |-> strength \div 2 + stamina,
      magicDamageReduction |-> stamina \div 2 + wisdom]

Attributes(strength, agility, stamina, intellect, wisdom) ==
  [strength |-> strength, agility |-> agility, stamina |-> stamina,
   intellect |-> intellect, wisdom |-> wisdom]

\* a stored character record
Character(name, attributes, rotation, attackType) ==
  [id |-> 0, name |-> name, stats |-> calculateStats(attributes),
   rotation |-> rotation, attackType |-> attackType]

Tank == Character("Tank", Attributes(0, 0, 14, 1, 0),
                  <<"shield", "bulwark", "strike">>, "physical")
Bastion == Character("Bastion", Attributes(0, 0, 14, 1, 0),
                     <<"strike", "shield", "rage">>, "physical")
Striker == Character("Striker", Attributes(4, 0, -6, 17, 0),
                     <<"strike", "poison", "slow">>, "physical")
Rogue == Character("Rogue", Attributes(2, 16, -8, 5, 0),
                   <<"backstab", "flurry", "strike">>, "physical")
Brawler == Character("Brawler", Attributes(2, 0, -8, 21, 0),
                     <<"ghost", "strike", "flurry">>, "physical")
Mage == Character("Mage", Attributes(20, 1, -8, 2, 0),
                  <<"fireball", "drain", "chaosbolt">>, "magic")
Cleric == Character("Cleric", Attributes(20, 1, -8, 2, 0),
                    <<"ward", "heal", "drain">>, "magic")

Monk == Character("Monk", Attributes(0, 1, 14, 0, 0),
                  <<"bulwark", "bulwark", "bulwark">>, "magic")
Acolyte == Character("Acolyte", Attributes(0, 1, 14, 0, 0),
                     <<"rage", "rage", "rage">>, "magic")
Assassin == Character("Assassin", Attributes(0, 16, 1, 0, 0),
                      <<"venom", "venom", "venom">>, "magic")
Berserker == Character("Berserker", Attributes(4, 0, 8, 1, 2),
                       <<"rage", "reckless", "warcry">>, "physical")
Sorcerer == Character("Sorcerer", Attributes(0, 0, 4, 11, 0),
                      <<"barrage", "barrage", "barrage">>, "magic")
Hexer == Character("Hexer", Attributes(0, 17, 0, 0, 0), <<"hex", "hex", "hex">>, "magic")
Brander == Character("Brander", Attributes(0, 12, -6, 9, 0),
                     <<"brand", "brand", "brand">>, "magic")
Druid == Character("Druid", Attributes(0, 0, -6, 6, 2), <<"mend", "renew", "heal">>, "magic")
Zealot == Character("Zealot", Attributes(0, 0, -8, 20, 0),
                    <<"chaosbolt", "chaosbolt", "chaosbolt">>, "magic")
Leech == Character("Leech", Attributes(0, 0, -8, 0, 2), <<"drain", "drain", "drain">>, "magic")
Caster == Character("Caster", Attributes(0, 10, 5, 0, 0), <<"fireball">>, "physical")
Dummy == Character("Dummy", Attributes(15, 0, 0, 0, 0), <<>>, "physical")

\* the pairs simulateBattle is called with
Battles ==
  << <<Striker, Tank>>, <<Mage, Cleric>>, <<Rogue, Brawler>>, <<Tank, Bastion>>,
     <<Monk, Acolyte>>, <<Assassin, Tank>>, <<Caster, Dummy>>,
     <<Berserker, Sorcerer>>, <<Hexer, Brander>>,
     <<Cleric, Brawler>>, <<Druid, Cleric>>,
     <<Cleric, Zealot>>, <<Leech, Leech>>, <<Sorcerer, Berserker>> >>

(***************************************************************************)
(* The matchmaking state machine.  The service starts with an empty queue  *)
(* and no notification (module load); every character record exists.      *)
(***************************************************************************)
NoAct == [kind |-> "none", actor |-> 0, time |-> 0, used |-> "none", hits |-> <<>>,
          drains |-> <<>>, heals |-> <<>>, ticks |-> <<>>, expired |-> <<>>, lapsed |-> <<>>,
          uses |-> <<0, 0>>,
          basics |-> <<0, 0>>, poisoned |-> <<0, 0>>, tail |-> <<>>,
          usedAt |-> [k \in {1, 2} |-> [a \in AbilityIds |-> -1]], since |-> -1,
          lastAt |-> <<-1, -1>>]

IdleBattle ==
  /\ battleState = [rounds |-> 0, winner |-> null]
  /\ char1NextAttack = 0
  /\ char2NextAttack = 0
  /\ battleTime = 0
  /\ pc = "idle"
  /\ act = NoAct

(***************************************************************************)
(* character-model: experience and levels.  progress[c] is the record of c *)
(* in characters.json: the experience fields that battles change and the   *)
(* stored fields a battle is fought with.                                  *)
(***************************************************************************)
\* a record as POST /api/characters writes it and the rotation route
\* completes it; availableAttributePoints || 0
NewCharacter ==
  [name |-> "Recruit", stats |-> calculateStats(Attributes(3, 3, 3, 3, 3)),
   rotation |-> <<"strike", "poison", "slow">>, attackType |-> "physical",
   experience |-> 0, level |-> 1, availableAttributePoints |-> 0]

\* 1.2 ^ n as a fraction
RECURSIVE growth(_)
growth(n) ==
  IF n = 0 THEN [num |-> 1, den |-> 1]
  ELSE [num |-> growth(n - 1).num * 12, den |-> growth(n - 1).den * 10]

\* calculateExpForNextLevel: Math.round(100 * 1.2 ^ (level - 1))
calculateExpForNextLevel(level) ==
  Round(100 * growth(level - 1).num, growth(level - 1).den)

\* canLevelUp
canLevelUp(character) ==
  character.experience >= calculateExpForNextLevel(character.level)

levelUpCharacter_KeepExperience(character) ==
  IF ~canLevelUp(character) THEN character
  ELSE [character EXCEPT
          !.experience = 0,
          !.level = @ + 1,
          !.availableAttributePoints = @ + 2]

\* levelUpCharacter
levelUpCharacter(character) ==
  IF ~canLevelUp(character) THEN character
  ELSE [character EXCEPT
          !.experience = @ - calculateExpForNextLevel(character.level),
          !.level = @ + 1,
          !.availableAttributePoints = @ + 2]

\* applyPendingLevelUps
RECURSIVE applyPendingLevelUps(_)
applyPendingLevelUps(character) ==
  IF canLevelUp(character) THEN applyPendingLevelUps(levelUpCharacter(character))
  ELSE character

\* calculateBattleExperience; p is the Math.random() * 100 its randomInt draws
calculateBattleExperience(isWinner, characterLevel, isMatchmade, p) ==
  IF ~isMatchmade THEN 0
  ELSE Round((IF isWinner THEN randomInt(20, 30, p) ELSE randomInt(5, 10, p))
               * (10 + (characterLevel - 1)), 10)

\* what simulateBattle leaves for formatBattleResult to decide on: the
\* winner (1: character1, 2: character2, 0: the draw) and the two draws of
\* calculateBattleExperience
Outcomes ==
  { [winner |-> 1, roll1 |-> 0, roll2 |-> 99],
    [winner |-> 2, roll1 |-> 99, roll2 |-> 0],
    [winner |-> 0, roll1 |-> 0, roll2 |-> 0] }

NoSide == [id |-> 0, level |-> 1, experienceGained |-> 0]

\* no battle yet.  saved and awarded are not fields of the result: they are
\* what saveBattleResult returned for it and whether awardExperience's write
\* of characters.json was taken.
NoResult == [id |-> 0, character |-> NoSide, opponent |-> NoSide, winner |-> null,
             isMatchmade |-> FALSE, saved |-> FALSE, awarded |-> FALSE,
             records |-> <<>>]

passedRecords_InPlace(character1, character2, o) ==
  << [character1 EXCEPT !.stats.health = IF o.winner = 2 THEN 0 ELSE @],
     [character2 EXCEPT !.stats.health = IF o.winner = 1 THEN 0 ELSE @] >>

\* the two objects simulateBattle was passed, as it leaves them: the battle
\* state is built from char1 = JSON.parse(JSON.stringify(character1)) and
\* char2 likewise, and the loop assigns to the battle state only
passedRecords(character1, character2, o) == <<character1, character2>>

\* formatBattleResult, for the battle `id` of c1 against c2
formatBattleResult(id, c1, c2, o, prog, isMatchmade) ==
  LET winner == IF o.winner = 1 THEN c1 ELSE IF o.winner = 2 THEN c2 ELSE null
      char1Exp == IF isMatchmade
                  THEN calculateBattleExperience(winner = c1, prog[c1].level,
                                                 isMatchmade, o.roll1)
                  ELSE 0
      char2Exp == IF isMatchmade
                  THEN calculateBattleExperience(winner = c2, prog[c2].level,
                                                 isMatchmade, o.roll2)
                  ELSE 0
  IN [NoResult EXCEPT
        !.id = id,
        !.character = [id |-> c1, level |-> prog[c1].level, experienceGained |-> char1Exp],
        !.opponent = [id |-> c2, level |-> prog[c2].level, experienceGained |-> char2Exp],
        !.winner = winner,
        !.isMatchmade = isMatchmade]

\* awardExperience: characters.json after it; the result of its write is
\* not looked at
awardExperience_StoresCombatants(prog, store, result, writeOk) ==
  LET c1 == result.character.id
      c2 == result.opponent.id
  IN IF c1 \notin store \/ c2 \notin store \/ ~writeOk THEN prog
     ELSE [prog EXCEPT
             ![c1] = applyPendingLevelUps(
                       [@ EXCEPT !.experience = @ + result.character.experienceGained,
                                 !.stats.health = IF result.winner = c1 THEN @ ELSE 0]),
             ![c2] = applyPendingLevelUps(
                       [@ EXCEPT !.experience = @ + result.opponent.experienceGained,
                                 !.stats.health = IF result.winner = c2 THEN @ ELSE 0])]

awardExperience(prog, store, result, writeOk) ==
  LET c1 == result.character.id
      c2 == result.opponent.id
  IN IF c1 \notin store \/ c2 \notin store \/ ~writeOk THEN prog
     ELSE [prog EXCEPT
             ![c1] = applyPendingLevelUps(
                       [@ EXCEPT !.experience = @ + result.character.experienceGained]),
             ![c2] = applyPendingLevelUps(
                       [@ EXCEPT !.experience = @ + result.opponent.experienceGained])]

EmptyQueue ==
  /\ matchmakingQueue = <<>>
  /\ pendingMatchNotifications = [c \in CharIds |-> NoMatch]
  /\ characters = CharIds
  /\ battlelogs = {}
  /\ nextBattleId = 1
  /\ lastCall = NoCall
  /\ progress = [c \in CharIds |-> NewCharacter]
  /\ battleResult = NoResult

QInit == EmptyQueue /\ IdleBattle

\* SpecQueue: the store takes every write
QNext ==
  \/ \E c \in CharIds, now \in Times : addToQueue(c, now, TRUE)
  \/ \E c \in CharIds : removeFromQueue(c)
  \/ \E c \in CharIds : checkQueueStatus(c, TRUE)
  \/ \E c \in CharIds : deleteCharacter(c)

SpecQueue == QInit /\ [][QNext]_vars

(***************************************************************************)
(* SpecStore: the battle routes with the stores behind them.  SpecQueue    *)
(* follows the queue and leaves the experience fields of characters.json   *)
(* aside; here every pairing goes on through startBattle's                 *)
(* formatBattleResult, saveBattleResult and awardExperience, either write  *)
(* may be refused by the file system, and POST /api/battles runs a direct  *)
(* battle.  No record is deleted and the clock is not read.                *)
(***************************************************************************)
\* the experience just short of level 2 that character 1 starts with
StartExperience == 95

\* the uuids left for the battles of this machine
CanBattle == nextBattleId <= MaxStoreBattles

SInit ==
  /\ matchmakingQueue = <<>>
  /\ pendingMatchNotifications = [c \in CharIds |-> NoMatch]
  /\ characters = CharIds
  /\ battlelogs = {}
  /\ nextBattleId = 1
  /\ lastCall = NoCall
  /\ progress = [c \in CharIds |->
                   IF c = 1 THEN [NewCharacter EXCEPT !.experience = StartExperience]
                   ELSE NewCharacter]
  /\ battleResult = NoResult
  /\ IdleBattle

\* the rest of startBattle for the pairing the call has just made, if it
\* made one: the formatted result, and awardExperience
startBattleStores(c, charsOk, o) ==
  IF lastCall'.battles = 1
  THEN \E result \in {formatBattleResult(lastCall'.match.battleId, c, lastCall'.opponent,
                                         o, progress, TRUE)} :
         /\ CanBattle
         /\ battleResult' = [result EXCEPT
                               !.saved = result.id \in battlelogs',
                               !.awarded = charsOk,
                               !.records = passedRecords(progress[c],
                                                         progress[lastCall'.opponent], o)]
         /\ progress' = awardExperience(progress, characters, result, charsOk)
  ELSE /\ charsOk /\ o.winner = 0                 \* neither is read
       /\ battleResult' = NoResult
       /\ UNCHANGED progress

\* POST /api/battles/queue
PostQueue(c, logsOk, charsOk, o) ==
  /\ addToQueueCall(c, 0, logsOk)
  /\ startBattleStores(c, charsOk, o)
  /\ UNCHANGED bvars

\* GET /api/battles/queue/:characterId
GetQueue(c, logsOk, charsOk, o) ==
  /\ checkQueueStatusCall(c, logsOk)
  /\ startBattleStores(c, charsOk, o)
  /\ UNCHANGED bvars

\* DELETE /api/battles/queue/:characterId
DeleteQueue(c) ==
  /\ removeFromQueueCall(c)
  /\ battleResult' = NoResult
  /\ UNCHANGED progress
  /\ UNCHANGED bvars

\* POST /api/battles: a direct battle of c, a character of the session's
\* player, against any character d
PostBattle(c, d, logsOk, o) ==
  /\ c \in characters /\ d \in characters
  /\ CanBattle
  /\ battleResult' = [formatBattleResult(nextBattleId, c, d, o, progress, FALSE)
                        EXCEPT !.saved = logsOk,
                               !.records = passedRecords(progress[c], progress[d], o)]
  /\ battlelogs' = IF logsOk THEN battlelogs \cup {nextBattleId} ELSE battlelogs
  /\ nextBattleId' = nextBattleId + 1
  /\ lastCall' = [NoCall EXCEPT !.op = "directBattle", !.characterId = c,
                                !.opponent = d]
  /\ UNCHANGED <<matchmakingQueue, pendingMatchNotifications, characters, progress>>
  /\ UNCHANGED bvars

SNext ==
  \/ \E c \in CharIds, logsOk \in BOOLEAN, charsOk \in BOOLEAN, o \in Outcomes :
       PostQueue(c, logsOk, charsOk, o)
  \/ \E c \in CharIds, logsOk \in BOOLEAN, charsOk \in BOOLEAN, o \in Outcomes :
       GetQueue(c, logsOk, charsOk, o)
  \/ \E c \in CharIds : DeleteQueue(c)
  \/ \E c \in CharIds, d \in CharIds, logsOk \in BOOLEAN, o \in Outcomes :
       PostBattle(c, d, logsOk, o)

SpecStore == SInit /\ [][SNext]_vars

(***************************************************************************)
(* One call of simulateBattle.  pc is the position in its loop: "loop" at  *)
(* the while condition, "effects" between the attack and processEffects,   *)
(* "done" once determineWinner has run.  act records what the last step    *)
(* did: who attacked, with what (an ability id or "basic"), the hits, the  *)
(* mana drains, the effect ticks and expiries, how many abilities and how  *)
(* many basic attacks each combatant has made, how many poison damage      *)
(* lines each combatant has been logged so far, and when each combatant    *)
(* last used each ability (-1: never) and how long before this step the    *)
(* ability it used had last been used by the attacker (-1: never, or a     *)
(* basic attack) and when each combatant last acted (-1: never); tail is   *)
(* what determineWinner appended to the log.                               *)
(***************************************************************************)
Draws == [roll : RandomPercents, crit : RandomPercents]

\* the number of "takes ... damage from Poison" lines one effects pass logged
\* for combatant k
poisonLines(ticks, k) ==
  Cardinality({i \in 1..Len(ticks) : ticks[i].on = k /\ ticks[i].type = "poison"})

\* createBattleState (battle-model) over the two createBattleState
\* (character-model) records
newBattle(pair) ==
  [character1 |-> createBattleState([pair[1] EXCEPT !.id = 1]),
   character2 |-> createBattleState([pair[2] EXCEPT !.id = 2]),
   rounds |-> 0,
   winner |-> null]

BInit ==
  /\ EmptyQueue
  /\ \E i \in 1..Min(NumBattles, Len(Battles)) : battleState = newBattle(Battles[i])
  /\ char1NextAttack = 0
  /\ char2NextAttack = 0
  /\ battleTime = 0
  /\ pc = "loop"
  /\ act = NoAct

character1Acts_Strict(next1, next2) == next1 < next2

\* the loop's choice of attacker: char1NextAttack <= char2NextAttack
character1Acts(next1, next2) == next1 <= next2

reschedule_FromNow(nextAttack, attacker) == getEffectiveAttackSpeed(attacker)

\* charNNextAttack += getEffectiveAttackSpeed(attacker)
reschedule(nextAttack, attacker) == nextAttack + getEffectiveAttackSpeed(attacker)

\* the next attack: advance the clock, processAttack, reschedule the attacker
BattleAttack ==
  /\ pc = "loop"
  /\ battleContinues(battleState, battleTime)
  /\ LET first == character1Acts(char1NextAttack, char2NextAttack)
         time == IF first THEN char1NextAttack ELSE char2NextAttack
         attacker == IF first THEN battleState.character1 ELSE battleState.character2
         defender == IF first THEN battleState.character2 ELSE battleState.character1
         k == IF first THEN 1 ELSE 2
     IN \E rnd \in [1..attacksOf(attacker, time) -> Draws] :
        \E ability \in {usableAbility(attacker, time)} :
        \E x \in {processAttack(attacker, defender, time, rnd)} :
             /\ battleTime' = time
             /\ battleState' = [battleState EXCEPT
                                  !.character1 = IF first THEN x.attacker ELSE x.defender,
                                  !.character2 = IF first THEN x.defender ELSE x.attacker]
             /\ char1NextAttack' = IF first
                                   THEN reschedule(char1NextAttack, x.attacker)
                                   ELSE char1NextAttack
             /\ char2NextAttack' = IF first
                                   THEN char2NextAttack
                                   ELSE reschedule(char2NextAttack, x.attacker)
             /\ act' = [kind |-> "attack", actor |-> k, time |-> time,
                        used |-> IF ability = NoAbility THEN "basic" ELSE ability.id,
                        hits |-> x.hits, drains |-> x.drains, heals |-> x.heals,
                        ticks |-> <<>>,
                        expired |-> <<>>, lapsed |-> <<>>,
                        poisoned |-> act.poisoned, tail |-> <<>>,
                        uses |-> IF ability = NoAbility THEN act.uses
                                 ELSE [act.uses EXCEPT ![k] = @ + 1],
                        basics |-> IF ability = NoAbility
                                   THEN [act.basics EXCEPT ![k] = @ + 1]
                                   ELSE act.basics,
                        usedAt |-> IF ability = NoAbility THEN act.usedAt
                                   ELSE [act.usedAt EXCEPT ![k][ability.id] = time],
                        since |-> IF ability = NoAbility THEN -1
                                  ELSE IF act.usedAt[k][ability.id] = -1 THEN -1
                                  ELSE time - act.usedAt[k][ability.id],
                        lastAt |-> [act.lastAt EXCEPT ![k] = time]]
  /\ pc' = "effects"
  /\ UNCHANGED qvars

\* processEffects and rounds++
BattleEffects ==
  /\ pc = "effects"
  /\ \E fx \in {processEffects(battleState, battleTime)} :
        /\ battleState' = [battleState EXCEPT !.character1 = fx.character1,
                                              !.character2 = fx.character2,
                                              !.rounds = @ + 1]
        /\ act' = [act EXCEPT !.kind = "effects", !.hits = <<>>, !.heals = <<>>,
                              !.drains = fx.drains, !.ticks = fx.ticks,
                              !.expired = fx.expired, !.lapsed = fx.lapsed,
                              !.poisoned = [k \in {1, 2} |->
                                              @[k] + poisonLines(fx.ticks, k)]]
  /\ pc' = "loop"
  /\ UNCHANGED <<char1NextAttack, char2NextAttack, battleTime>>
  /\ UNCHANGED qvars

\* the loop is left: determineWinner
BattleFinish ==
  /\ pc = "loop"
  /\ ~battleContinues(battleState, battleTime)
  /\ battleState' = [battleState EXCEPT !.winner = determineWinner(battleState)]
  /\ act' = [act EXCEPT !.kind = "finish", !.hits = <<>>, !.drains = <<>>,
                        !.heals = <<>>,
                        !.ticks = <<>>, !.expired = <<>>, !.lapsed = <<>>,
                        !.tail = determineWinnerLog(battleState, battleTime)]
  /\ pc' = "done"
  /\ UNCHANGED <<char1NextAttack, char2NextAttack, battleTime>>
  /\ UNCHANGED qvars

BNext ==
  \/ BattleAttack
  \/ BattleEffects
  \/ BattleFinish

SpecBattle == BInit /\ [][BNext]_vars

\* the loop runs on: nothing but simulateBattle itself is scheduled
SpecBattleFair == BInit /\ [][BNext]_vars /\ WF_vars(BNext)

(***************************************************************************)
(* Matchmaking claims.                                                     *)
(***************************************************************************)
CallOf(op) == lastCall'.op = op /\ lastCall'.characterId \in CharIds
Caller == lastCall'.characterId
Waiting(q) == {q[i].characterId : i \in 1..Len(q)}
EntryOf(q, c) == q[getQueuePosition(q, c)]
SameOrder(q1, q2) ==
  \A c, d \in Waiting(q1) \cap Waiting(q2) :
     getQueuePosition(q1, c) < getQueuePosition(q1, d)
       <=> getQueuePosition(q2, c) < getQueuePosition(q2, d)

\* C2: no pairing ever picks an opponent of the caller's own player, or the
\* caller itself; an addToQueue of a character whose player owns every
\* waiting entry starts no battle and leaves all of them, and itself, waiting.
C2_NoSameOwnerMatch ==
  /\ [](lastCall.opponent # 0 =>
          /\ lastCall.opponent # lastCall.characterId
          /\ Owner(lastCall.opponent) # Owner(lastCall.characterId))
  /\ [][(/\ CallOf("addToQueue")
         /\ pendingMatchNotifications[Caller] = NoMatch
         /\ ~InQueue(matchmakingQueue, Caller)
         /\ \A i \in 1..Len(matchmakingQueue) :
               matchmakingQueue[i].playerId = Owner(Caller))
        => (/\ lastCall'.opponent = 0 /\ lastCall'.battles = 0
            /\ lastCall'.match = NoMatch
            /\ nextBattleId' = nextBattleId
            /\ Waiting(matchmakingQueue') = Waiting(matchmakingQueue) \cup {Caller})]_vars

C2_Witness ==
  /\ lastCall.op = "addToQueue" /\ lastCall.characterId = 2
  /\ Waiting(matchmakingQueue) = {1, 2}
  /\ nextBattleId = 1

\* C3: when findMatch finds an opponent, both entries are gone, one battle
\* has run, the opponent (and only the opponent) holds the notification and
\* the caller is returned the match.
C3_PairingOutcome ==
  lastCall.opponent # 0 =>
    /\ ~InQueue(matchmakingQueue, lastCall.characterId)
    /\ ~InQueue(matchmakingQueue, lastCall.opponent)
    /\ lastCall.battles = 1
    /\ lastCall.match.opponentId = lastCall.opponent
    /\ lastCall.match.battleId = nextBattleId - 1
    /\ pendingMatchNotifications[lastCall.opponent] =
          [opponentId |-> lastCall.characterId, battleId |-> lastCall.match.battleId]
    /\ pendingMatchNotifications[lastCall.characterId] = NoMatch

\* C4: addToQueue of a character with a pending notification returns it,
\* deletes it, inserts nothing and runs no battle; a battle id is held by at
\* most one notification and, once taken out of the map, never comes back.
PendingIds(pend) == {pend[c].battleId : c \in CharIds} \ {0}

C4_NotificationConsumedOnce ==
  /\ [][(CallOf("addToQueue") /\ pendingMatchNotifications[Caller] # NoMatch)
        => (/\ lastCall'.match = pendingMatchNotifications[Caller]
            /\ pendingMatchNotifications'[Caller] = NoMatch
            /\ matchmakingQueue' = matchmakingQueue
            /\ lastCall'.battles = 0 /\ lastCall'.opponent = 0
            /\ nextBattleId' = nextBattleId /\ battlelogs' = battlelogs)]_vars
  /\ [](\A c, d \in CharIds :
          (c # d /\ pendingMatchNotifications[c] # NoMatch)
            => pendingMatchNotifications[c].battleId # pendingMatchNotifications[d].battleId)
  /\ [][\A b \in 1..MaxBattles :
          (b < nextBattleId /\ b \notin PendingIds(pendingMatchNotifications))
            => b \notin PendingIds(pendingMatchNotifications')]_vars
  /\ [][(lastCall'.match # NoMatch /\ lastCall'.battles = 0 /\ lastCall' # lastCall)
        => (/\ pendingMatchNotifications[Caller] = lastCall'.match
            /\ lastCall'.match.battleId \notin PendingIds(pendingMatchNotifications'))]_vars

C4_Witness ==
  /\ lastCall.op = "addToQueue"
  /\ lastCall.match # NoMatch /\ lastCall.battles = 0
  /\ pendingMatchNotifications[lastCall.characterId] = NoMatch

\* C5: removeFromQueue(c) leaves c with no entry and no notification, leaves
\* every other entry and notification as it was, and returns removed = TRUE
\* exactly when c was waiting before.
C5_RemoveFrame ==
  [][CallOf("removeFromQueue")
     => (/\ ~InQueue(matchmakingQueue', Caller)
         /\ pendingMatchNotifications'[Caller] = NoMatch
         /\ \A d \in CharIds \ {Caller} :
              /\ pendingMatchNotifications'[d] = pendingMatchNotifications[d]
              /\ InQueue(matchmakingQueue', d) <=> InQueue(matchmakingQueue, d)
              /\ InQueue(matchmakingQueue, d)
                   => EntryOf(matchmakingQueue', d) = EntryOf(matchmakingQueue, d)
         /\ Len(matchmakingQueue') = Cardinality(Waiting(matchmakingQueue'))
         /\ SameOrder(matchmakingQueue, matchmakingQueue')
         /\ lastCall'.removed <=> InQueue(matchmakingQueue, Caller)
         /\ battlelogs' = battlelogs /\ nextBattleId' = nextBattleId)]_vars

C5_Witness ==
  /\ lastCall.op = "removeFromQueue" /\ lastCall.removed
  /\ Len(matchmakingQueue) = 1
  /\ \E d \in CharIds : pendingMatchNotifications[d] # NoMatch

C5_WitnessNotification ==
  /\ lastCall.op = "removeFromQueue" /\ ~lastCall.removed
  /\ nextBattleId = 2 /\ PendingIds(pendingMatchNotifications) = {}

\* C6: checkQueueStatus returns and deletes a pending notification
\* (inQueue = FALSE); with none and no entry it returns inQueue = FALSE and
\* changes nothing; with an entry and no opponent it returns inQueue = TRUE
\* and the 1-based position, the waiting list unchanged.
C6_CheckQueueStatus ==
  [][CallOf("checkQueueStatus")
     => /\ pendingMatchNotifications[Caller] # NoMatch
           => (/\ lastCall'.match = pendingMatchNotifications[Caller]
               /\ ~lastCall'.inQueue
               /\ pendingMatchNotifications'[Caller] = NoMatch
               /\ matchmakingQueue' = matchmakingQueue)
        /\ (pendingMatchNotifications[Caller] = NoMatch
              /\ ~InQueue(matchmakingQueue, Caller))
           => (/\ ~lastCall'.inQueue /\ lastCall'.match = NoMatch
               /\ matchmakingQueue' = matchmakingQueue
               /\ pendingMatchNotifications' = pendingMatchNotifications)
        /\ (pendingMatchNotifications[Caller] = NoMatch
              /\ InQueue(matchmakingQueue, Caller)
              /\ lastCall'.opponent = 0)
           => (/\ lastCall'.inQueue /\ lastCall'.match = NoMatch
               /\ matchmakingQueue' = matchmakingQueue
               /\ pendingMatchNotifications' = pendingMatchNotifications
               /\ lastCall'.queuePosition \in 1..Len(matchmakingQueue)
               /\ matchmakingQueue[lastCall'.queuePosition].characterId = Caller
               /\ \A j \in 1..(lastCall'.queuePosition - 1) :
                    matchmakingQueue[j].characterId # Caller)]_vars

C6_Witness ==
  /\ lastCall.op = "checkQueueStatus" /\ lastCall.inQueue
  /\ lastCall.queuePosition = 2

C6_WitnessNotification ==
  /\ lastCall.op = "checkQueueStatus" /\ ~lastCall.inQueue
  /\ lastCall.match # NoMatch

(***************************************************************************)
(* Battle claims.                                                          *)
(***************************************************************************)
InBattle == pc \in {"loop", "effects", "done"}
Combatants == {1, 2}
fighter(k) == IF k = 1 THEN battleState.character1 ELSE battleState.character2
fighterAfter(k) == IF k = 1 THEN battleState'.character1 ELSE battleState'.character2
AttackStep == pc = "loop" /\ pc' = "effects"

\* every loop iteration moves one combatant's next attack on by at least
\* minAttackTime, and the loop runs only while the earlier one is below the cap
RoundLimit ==
  2 * ((maxBattleTime * TicksPerSecond) \div (minAttackTime * TicksPerSecond)) + 2

ValidCombatants ==
  \A k \in Combatants :
     fighter(k).stats.health > 0 /\ getEffectiveAttackSpeed(fighter(k)) > 0

\* C1: with both combatants of positive max health and positive effective
\* attack speed, the battle loop ends (within the rounds the 300 s cap
\* allows), and the winner then set is character1's id, character2's id or
\* null.
C1_TerminatesWithWinner ==
  /\ [](InBattle => ValidCombatants)
  /\ <>(pc = "done")
  /\ [](InBattle => battleState.rounds <= RoundLimit)
  /\ [](pc = "done" =>
          battleState.winner \in {battleState.character1.id, battleState.character2.id, null})

C1_Witness ==
  /\ pc = "done"
  /\ battleTime >= maxBattleTime * TicksPerSecond
  /\ battleState.character1.currentHealth > 0
  /\ battleState.character2.currentHealth > 0
  /\ battleState.winner \in {battleState.character1.id, battleState.character2.id}

\* C7: every hit of a physical or magic attack applies a reduction of at most
\* 80 percent and takes at least 1 health from the defender:
\* final = max(1, round(base * (1 - min(0.8, reduction)))).
C7_DamageReductionCapped ==
  InBattle =>
    /\ \A i \in 1..Len(act.hits) :
         LET h == act.hits[i]
             applied == IF h.reduction <= 80 THEN h.reduction ELSE 80
             reduced == (2 * h.baseDamage * (100 - applied) + 100) \div 200
         IN /\ h.kind \in {"physical", "magic"}
            /\ h.damage >= 1
            /\ h.damage = IF reduced >= 1 THEN reduced ELSE 1
            /\ h.healthAfter = h.healthBefore - h.damage
    /\ act.kind = "attack" /\ act.hits # <<>> =>
         fighter(3 - act.actor).currentHealth = act.hits[Len(act.hits)].healthAfter

C7_Witness ==
  /\ act.kind = "attack"
  /\ \E i \in 1..Len(act.hits) :
       /\ act.hits[i].reduction > 80
       /\ act.hits[i].baseDamage >= 5
       /\ sumReduction(fighter(3 - act.actor).buffs, "physicalReduction") > 0

UniqueTypes(list) ==
  \A i, j \in 1..Len(list) : list[i].type = list[j].type => i = j

\* an attack step that used a buff ability on a target already carrying a
\* buff of that type
RefreshedBuff(k, i) ==
  /\ AttackStep
  /\ act'.used \in AbilityIds
  /\ abilityHandler(getAbility(act'.used)) = "buff"
  /\ k = (IF getAbility(act'.used).buffEffect.targetsSelf
          THEN act'.actor ELSE 3 - act'.actor)
  /\ i = findType(fighter(k).buffs, getAbility(act'.used).buffEffect.type)
  /\ i # 0

\* C8: a combatant never carries two buffs of one type nor two periodic
\* effects of one type; a buff ability used on a target that already has a
\* buff of its type adds no entry and changes nothing but that entry's
\* endTime, which becomes now + duration.
C8_OneEntryPerType ==
  /\ [](InBattle => \A k \in Combatants :
                      UniqueTypes(fighter(k).buffs)
                      /\ UniqueTypes(fighter(k).periodicEffects))
  /\ [][\A k \in Combatants : \A i \in 0..Len(fighter(k).buffs) :
          RefreshedBuff(k, i) =>
            /\ fighterAfter(k).buffs =
                 [fighter(k).buffs EXCEPT
                    ![i].endTime = battleTime' + getAbility(act'.used).buffEffect.duration]
            /\ fighterAfter(k).buffs[i].amount = fighter(k).buffs[i].amount
            /\ fighterAfter(k).buffs[i].name = fighter(k).buffs[i].name]_vars

\* Bulwark was used while Shield Wall was up: the entry is still Shield Wall
\* with its amount, ending Bulwark's duration from now
C8_Witness ==
  /\ pc = "effects"
  /\ act.used = "bulwark"
  /\ \E i \in 1..Len(fighter(act.actor).buffs) :
       LET b == fighter(act.actor).buffs[i]
       IN /\ b.name = "Shield Wall"
          /\ b.amount = getAbility("shield").buffEffect.amount
          /\ b.endTime = act.time + getAbility("bulwark").buffEffect.duration

\* C9: on every mana-drain transfer the source gains no more than was drained
\* from the target, drained = min(target.currentMana, amount), and the source
\* ends at or below its max mana.
C9_DrainCreditBounded ==
  InBattle =>
    \A i \in 1..Len(act.drains) :
       LET d == act.drains[i]
       IN /\ d.drained = (IF d.targetManaBefore <= d.amount
                          THEN d.targetManaBefore ELSE d.amount)
          /\ d.sourceManaAfter - d.sourceManaBefore <= d.drained
          /\ d.sourceManaAfter <= d.sourceMax

\* C10: with a non-empty rotation, nextAbilityIndex stays within the
\* rotation; an attack that uses an ability uses the one at the index and
\* moves the index on by one modulo the rotation's length, any other attack
\* leaves it, so the n-th ability used is rotation[(n - 1) mod length].
C10_RotationCycles ==
  /\ [](InBattle => \A k \in Combatants :
          Len(fighter(k).rotation) > 0 =>
            /\ fighter(k).nextAbilityIndex >= 0
            /\ fighter(k).nextAbilityIndex < Len(fighter(k).rotation)
            /\ fighter(k).nextAbilityIndex = act.uses[k] % Len(fighter(k).rotation))
  /\ [][AttackStep =>
          LET k == act'.actor
              n == Len(fighter(k).rotation)
          IN /\ fighterAfter(3 - k).nextAbilityIndex = fighter(3 - k).nextAbilityIndex
             /\ IF act'.used = "basic"
                THEN fighterAfter(k).nextAbilityIndex = fighter(k).nextAbilityIndex
                ELSE /\ act'.used = fighter(k).rotation[fighter(k).nextAbilityIndex + 1]
                     /\ act'.used = fighter(k).rotation[((act'.uses[k] - 1) % n) + 1]
                     /\ fighterAfter(k).nextAbilityIndex
                          = (fighter(k).nextAbilityIndex + 1) % n]_vars

\* the 4th ability a combatant with a 3-ability rotation uses is its first
C10_Witness ==
  /\ act.kind = "attack"
  /\ Len(fighter(act.actor).rotation) = 3
  /\ act.uses[act.actor] = 4
  /\ act.used = fighter(act.actor).rotation[1]
  /\ fighter(act.actor).nextAbilityIndex = 1

BothAlive ==
  battleState.character1.currentHealth > 0 /\ battleState.character2.currentHealth > 0

\* currentHealth / stats.health of combatant k against that of combatant j,
\* as the sign of the difference of the two ratios (max health is positive)
RatioAbove(k, j) ==
  fighter(k).currentHealth * fighter(j).stats.health
    > fighter(j).currentHealth * fighter(k).stats.health

\* C11: when the loop ends with both combatants alive, character1 wins iff
\* its health ratio is strictly the greater, character2 iff its own is, and
\* the result is null iff the ratios are equal; null is the result of no
\* battle that ends otherwise.
C11_TimeCapWinner ==
  pc = "done" =>
    /\ BothAlive =>
         /\ battleState.winner = battleState.character1.id <=> RatioAbove(1, 2)
         /\ battleState.winner = battleState.character2.id <=> RatioAbove(2, 1)
         /\ battleState.winner = null <=> (~RatioAbove(1, 2) /\ ~RatioAbove(2, 1))
    /\ battleState.winner = null =>
         BothAlive /\ battleTime >= maxBattleTime * TicksPerSecond

\* a draw at the cap: both alive with equal ratios below full health
C11_Witness ==
  /\ pc = "done"
  /\ BothAlive
  /\ battleState.winner = null
  /\ battleState.character1.currentHealth < battleState.character1.stats.health
  /\ battleState.character1.currentHealth * battleState.character2.stats.health
       = battleState.character2.currentHealth * battleState.character1.stats.health

\* C12: the simulated clock never passes the 300-second cap, and no ability
\* or basic attack is resolved at a time beyond it.
C12_TimeCapRespected ==
  /\ battleTime <= maxBattleTime * TicksPerSecond
  /\ act.kind = "attack" => act.time <= maxBattleTime * TicksPerSecond

\* the battle of the poison scenario: Assassin opens with Venom (poison,
\* damage 10, duration 6 s, interval 2 s) at t = 0 and attacks every 2 s
PoisonScenario ==
  /\ InBattle
  /\ battleState.character1.name = "Assassin"
  /\ battleTime <= 60

PoisonExpiries(k) ==
  {i \in 1..Len(act.expired) : act.expired[i].on = k /\ act.expired[i].type = "poison"}

\* C13: a poison of duration 6, interval 2 and damage 10 applied at t = 0
\* logs its damage in the effect passes at t = 2 and t = 4 only; the pass at
\* t = 6 logs no damage and removes it with the expiry line, which two
\* damage lines precede.
C13_PoisonTicksTwice ==
  (PoisonScenario /\ act.kind = "effects") =>
    /\ poisonLines(act.ticks, 2) = (IF battleTime \in {20, 40} THEN 1 ELSE 0)
    /\ \A i \in 1..Len(act.ticks) :
         act.ticks[i].type = "poison" =>
           /\ act.ticks[i].time = battleTime
           /\ fighter(2).currentHealth > 0
    /\ act.poisoned[2] = Min(2, battleTime \div 20)
    /\ PoisonExpiries(2) # {} <=> battleTime = 60
    /\ battleTime = 60 =>
         /\ Cardinality(PoisonExpiries(2)) = 1
         /\ findType(fighter(2).periodicEffects, "poison") = 0
    /\ battleTime < 60 => findType(fighter(2).periodicEffects, "poison") # 0

\* the effect pass at t = 6: the poison has gone after two damage lines of 10
C13_Witness ==
  /\ PoisonScenario
  /\ act.kind = "effects"
  /\ battleTime = 60
  /\ PoisonExpiries(2) # {}
  /\ act.poisoned[2] = 2
  /\ fighter(2).currentHealth <= fighter(2).stats.health - 20

\* the battle of the opening scenario: Caster (attack speed 5 s, rotation
\* [fireball], mana for two casts) against Dummy (attack speed 10 s, empty
\* rotation), once Caster has acted
OpeningScenario ==
  /\ InBattle
  /\ battleState.character1.name = "Caster"
  /\ act.kind # "none"

\* C14: in that battle, with nobody defeated before t = 10, Caster has cast
\* fireball within the first 5 seconds and Dummy has made exactly one basic
\* attack by t = 10.
C14_OpeningSchedule ==
  (OpeningScenario /\ BothAlive) =>
    /\ battleTime <= 50 => act.uses[1] >= 1
    /\ battleTime <= 100 => act.basics[2] <= 1
    /\ battleTime >= 100 => act.basics[2] >= 1

\* ability `id` of the catalogue is off cooldown and affordable for `c` at `time`
Ready(c, id, time) ==
  /\ id \in AbilityIds
  /\ time >= c.cooldowns[id]
  /\ \/ getAbility(id).manaCost = 0
     \/ c.currentMana >= getAbility(id).manaCost

SomeReady(c, time) == \E i \in 1..Len(c.rotation) : Ready(c, c.rotation[i], time)

NextReady(c, time) ==
  /\ Len(c.rotation) > 0
  /\ Ready(c, c.rotation[c.nextAbilityIndex + 1], time)

\* C18 as stated: a basic attack is made only when no ability of the
\* rotation is off cooldown and affordable, and an ability is used whenever
\* one is.
C18_BasicOnlyWhenNoneReady ==
  [][AttackStep =>
       (act'.used = "basic" <=> ~SomeReady(fighter(act'.actor), act'.time))]_vars

\* C18, amended: a basic attack is made exactly when the ability at
\* nextAbilityIndex is not usable (empty rotation, unknown id, on cooldown or
\* too expensive), whatever the rest of the rotation; otherwise that ability
\* is the one used.
C18_BasicWhenNextNotReady ==
  [][AttackStep =>
       LET attacker == fighter(act'.actor)
       IN IF NextReady(attacker, act'.time)
          THEN act'.used = attacker.rotation[attacker.nextAbilityIndex + 1]
          ELSE act'.used = "basic"]_vars

\* a basic attack made while the ability at nextAbilityIndex is on cooldown
\* and another ability of the rotation is ready
C18_Witness ==
  /\ act.kind = "attack"
  /\ act.used = "basic"
  /\ Len(fighter(act.actor).rotation) > 0
  /\ LET attacker == fighter(act.actor)
         nextAbilityId == attacker.rotation[attacker.nextAbilityIndex + 1]
     IN /\ nextAbilityId \in AbilityIds
        /\ act.time < attacker.cooldowns[nextAbilityId]
        /\ SomeReady(attacker, act.time)

OutcomeTexts ==
  {"wins the battle!", "Time limit reached! wins with more health remaining!",
   "Time limit reached! Battle ended in a draw"}

\* C20: however the battle ends, the log ends with one outcome line stamped
\* at the final battleTime and then exactly two final-state lines, for
\* character1 at battleTime + 0.1 and character2 at battleTime + 0.2, each
\* with the combatant's remaining health and mana.
C20_LogTail ==
  pc = "done" =>
    /\ Len(act.tail) = 3
    /\ act.tail[1].time = battleTime
    /\ act.tail[1].message.text \in OutcomeTexts
    /\ \A k \in Combatants :
         /\ act.tail[k + 1].time = battleTime + k
         /\ act.tail[k + 1].message.text = "Final state"
         /\ act.tail[k + 1].message.name = fighter(k).name
         /\ act.tail[k + 1].message.health = fighter(k).currentHealth
         /\ act.tail[k + 1].message.mana = fighter(k).currentMana

\* a battle ended by a knockout of character1 before the cap
C20_Witness ==
  /\ pc = "done"
  /\ fighter(1).currentHealth <= 0
  /\ battleTime < maxBattleTime * TicksPerSecond
  /\ Len(act.tail) = 3
  /\ act.tail[1].message = [text |-> "wins the battle!", name |-> fighter(2).name]

\* a battle ended at the cap with a winner on health
C20_WitnessTimeCap ==
  /\ pc = "done"
  /\ BothAlive
  /\ act.tail[1].message.text = "Time limit reached! wins with more health remaining!"

NoDuplicates(q) == Len(q) = Cardinality(Waiting(q))

\* C19: the waiting list never holds two entries of one character; an
\* addToQueue of a character that is already waiting inserts nothing, runs
\* no pairing and changes nothing but the timestamp of that entry, every
\* entry keeping its position.
C19_NoDuplicateEntries ==
  [][/\ NoDuplicates(matchmakingQueue')
     /\ (CallOf("addToQueue") /\ InQueue(matchmakingQueue, Caller)
           /\ pendingMatchNotifications[Caller] = NoMatch)
        => (/\ Len(matchmakingQueue') = Len(matchmakingQueue)
            /\ \A i \in 1..Len(matchmakingQueue) :
                 /\ matchmakingQueue'[i].characterId = matchmakingQueue[i].characterId
                 /\ matchmakingQueue'[i].playerId = matchmakingQueue[i].playerId
                 /\ matchmakingQueue[i].characterId # Caller
                      => matchmakingQueue'[i] = matchmakingQueue[i]
            /\ lastCall'.queuePosition = getQueuePosition(matchmakingQueue, Caller)
            /\ lastCall'.match = NoMatch /\ lastCall'.battles = 0
            /\ pendingMatchNotifications' = pendingMatchNotifications
            /\ battlelogs' = battlelogs /\ nextBattleId' = nextBattleId)]_vars

\* a second addToQueue of the first of two waiting characters, at a later
\* clock reading: it is still first, with the new timestamp
C19_Witness ==
  /\ lastCall.op = "addToQueue"
  /\ lastCall.message = "Still searching for opponent..."
  /\ Len(matchmakingQueue) = 2
  /\ matchmakingQueue[1].characterId = lastCall.characterId
  /\ matchmakingQueue[1].timestamp = 1
  /\ matchmakingQueue[2].timestamp = 0

\* the experience a character has earned in all: what its record holds plus
\* what its level-ups took
RECURSIVE spentOnLevels(_)
spentOnLevels(level) ==
  IF level <= 1 THEN 0
  ELSE calculateExpForNextLevel(level - 1) + spentOnLevels(level - 1)

TotalExperience(character) == character.experience + spentOnLevels(character.level)

\* what a result says character c gained
Gained(result, c) ==
  IF c = result.character.id THEN result.character.experienceGained
  ELSE IF c = result.opponent.id THEN result.opponent.experienceGained
  ELSE 0

\* C15 as stated: a pairing whose battle result the store refused to write is
\* aborted, with no match returned, no notification stored and no experience
\* awarded.
C15_FailedSaveAborts ==
  [][(battleResult'.isMatchmade /\ ~battleResult'.saved)
     => (/\ lastCall'.match = NoMatch
         /\ pendingMatchNotifications' = pendingMatchNotifications
         /\ progress' = progress)]_vars

\* C16: a direct battle reports experienceGained = 0 for both sides and
\* leaves experience and level in characters.json as they were; a pairing
\* whose write of characters.json is taken adds to each side what the result
\* says it gained, and nothing else changes the stored experience.
C16_ExperienceFromPairingsOnly ==
  [][/\ (battleResult'.id # 0 /\ ~battleResult'.isMatchmade)
        => (/\ battleResult'.character.experienceGained = 0
            /\ battleResult'.opponent.experienceGained = 0
            /\ progress' = progress)
     /\ (battleResult'.isMatchmade /\ battleResult'.awarded)
        => (/\ battleResult'.character.experienceGained > 0
            /\ battleResult'.opponent.experienceGained > 0
            /\ \A c \in CharIds :
                 /\ TotalExperience(progress'[c])
                      = TotalExperience(progress[c]) + Gained(battleResult', c)
                 /\ ~canLevelUp(progress'[c]))
     /\ battleResult'.id = 0 => progress' = progress]_vars

\* a pairing that took character 1 from 95 experience to level 2
C16_Witness ==
  /\ battleResult.isMatchmade /\ battleResult.awarded
  /\ 1 \in {battleResult.character.id, battleResult.opponent.id}
  /\ progress[1].level = 2
  /\ progress[1].experience = StartExperience + Gained(battleResult, 1) - 100

\* a direct battle between characters of two players, saved, won by the first
C16_WitnessDirect ==
  /\ lastCall.op = "directBattle"
  /\ battleResult.id \in battlelogs
  /\ ~battleResult.isMatchmade
  /\ battleResult.winner = battleResult.character.id
  /\ Owner(battleResult.character.id) # Owner(battleResult.opponent.id)
  /\ \A c \in CharIds : progress[c].level = 1

Dropped(c, k) ==
  /\ lastCall.op = "removeFromQueue"
  /\ lastCall.characterId = c
  /\ lastCall.dropped.battleId = k

Returned(c, k) ==
  /\ lastCall.op \in {"addToQueue", "checkQueueStatus"}
  /\ lastCall.characterId = c
  /\ lastCall.match.battleId = k

\* a notification that removeFromQueue dropped is returned by no later call
NeverReturned ==
  \A c \in CharIds : \A k \in 1..MaxBattles :
    [](Dropped(c, k) => [](~Returned(c, k)))

\* C17: removeFromQueue by a character whose notification is still pending
\* discards the notification, which no later addToQueue or checkQueueStatus
\* of that character returns; the character is not waiting afterwards, and
\* the saved result and the experience awarded stay (no step removes a
\* saved result or lowers what a character has earned).
C17_AbandonedMatch ==
  /\ [][(CallOf("removeFromQueue") /\ pendingMatchNotifications[Caller] # NoMatch)
        => (/\ lastCall'.dropped = pendingMatchNotifications[Caller]
            /\ pendingMatchNotifications'[Caller] = NoMatch
            /\ ~InQueue(matchmakingQueue', Caller)
            /\ battlelogs' = battlelogs
            /\ progress' = progress)]_vars
  /\ [][/\ battlelogs \subseteq battlelogs'
        /\ \A c \in CharIds :
             TotalExperience(progress'[c]) >= TotalExperience(progress[c])]_vars
  /\ NeverReturned

\* the opponent of a saved and awarded pairing has just dropped its
\* notification
C17_Witness ==
  /\ lastCall.op = "removeFromQueue"
  /\ lastCall.dropped # NoMatch
  /\ lastCall.dropped.battleId \in battlelogs
  /\ progress[lastCall.characterId].experience > 0
  /\ progress[lastCall.dropped.opponentId] # NewCharacter
  /\ pendingMatchNotifications[lastCall.characterId] = NoMatch
  /\ ~InQueue(matchmakingQueue, lastCall.characterId)

\* C21: every attack step is made by the combatant with the smaller
\* next-attack time, combatant 1 on a tie, and sets battleTime to that
\* time; only the attacker's next-attack time changes, by its effective
\* attack speed as it is after the action, the other one's stays.
C21_EarlierActsFirst ==
  [][AttackStep =>
       LET tie == char1NextAttack = char2NextAttack
           k == IF tie \/ char1NextAttack < char2NextAttack THEN 1 ELSE 2
           due == IF k = 1 THEN char1NextAttack ELSE char2NextAttack
           delay == getEffectiveAttackSpeed(fighterAfter(k))
       IN /\ act'.actor = k
          /\ due <= char1NextAttack /\ due <= char2NextAttack
          /\ battleTime' = due
          /\ act'.time = due
          /\ char1NextAttack' = IF k = 1 THEN char1NextAttack + delay ELSE char1NextAttack
          /\ char2NextAttack' = IF k = 2 THEN char2NextAttack + delay
                                ELSE char2NextAttack]_vars

\* combatant 1 has just acted on a tie after time 0, its own action having
\* changed its effective attack speed
C21_Witness ==
  /\ pc = "effects"
  /\ act.actor = 1
  /\ battleTime > 0
  /\ char2NextAttack = battleTime
  /\ \E b \in 1..Len(battleState.character1.buffs) :
        /\ battleState.character1.buffs[b].type = "attackSpeedReduction"
        /\ battleState.character1.buffs[b].endTime
             = battleTime + getAbility(act.used).buffEffect.duration
  /\ char1NextAttack = battleTime + getEffectiveAttackSpeed(battleState.character1)
  /\ getEffectiveAttackSpeed(battleState.character1)
       > battleState.character1.stats.attackSpeed

\* combatant 2 has just acted, being strictly earlier than combatant 1
C21_WitnessSecond ==
  /\ pc = "effects"
  /\ act.actor = 2
  /\ battleTime < char1NextAttack
  /\ char2NextAttack = battleTime + getEffectiveAttackSpeed(battleState.character2)

\* combatant k's next rotation entry, "none" for an empty rotation
NextAbilityId(k) ==
  IF Len(fighter(k).rotation) = 0 THEN "none"
  ELSE fighter(k).rotation[fighter(k).nextAbilityIndex + 1]

\* combatant k used ability id before and its cooldown has not run out at `time`
CoolingDown(k, id, time) ==
  /\ act.usedAt[k][id] # -1
  /\ time < act.usedAt[k][id] + getAbility(id).cooldown

\* C22: a combatant that used an ability at t does not use it again before
\* t + cooldown and makes a basic attack when its turn falls in between; it
\* uses the ability at its rotation index whenever that ability is in the
\* catalogue, affordable and not cooling down for this combatant (never used
\* by it, or used at least a cooldown ago, t + cooldown included), whatever
\* the other combatant used.
C22_CooldownPerCombatant ==
  [][AttackStep =>
       LET k == act'.actor
           id == NextAbilityId(k)
       IN /\ act'.used # "basic" =>
               /\ act'.used = id
               /\ ~CoolingDown(k, id, act'.time)
          /\ (id \in AbilityIds /\ CoolingDown(k, id, act'.time)) => act'.used = "basic"
          /\ (/\ id \in AbilityIds
              /\ ~CoolingDown(k, id, act'.time)
              /\ hasEnoughMana(fighter(k), getAbility(id))) => act'.used = id]_vars

\* an ability used again exactly one cooldown after its last use
C22_Witness ==
  /\ pc = "effects"
  /\ act.used \in AbilityIds
  /\ getAbility(act.used).cooldown > 0
  /\ act.since = getAbility(act.used).cooldown

\* an ability used by one combatant while the other one's use of it is
\* still cooling down
C22_WitnessOther ==
  /\ pc = "effects"
  /\ act.used \in AbilityIds
  /\ CoolingDown(3 - act.actor, act.used, act.time)

\* a basic attack made because the ability at the index is cooling down
C22_WitnessBasic ==
  /\ pc = "effects"
  /\ act.used = "basic"
  /\ NextAbilityId(act.actor) \in AbilityIds
  /\ CoolingDown(act.actor, NextAbilityId(act.actor), act.time)

\* C23: an attack whose rotation entry at nextAbilityIndex names no ability
\* of the catalogue is a basic attack that lands its hit; the attacker's
\* mana, cooldowns and nextAbilityIndex are as before.
C23_UnknownAbilityIsBasicAttack ==
  [][(AttackStep /\ NextAbilityId(act'.actor) \notin AbilityIds \cup {"none"}) =>
       LET k == act'.actor
       IN /\ act'.used = "basic"
          /\ Len(act'.hits) = 1
          /\ act'.hits[1].damage >= 1
          /\ fighterAfter(3 - k).currentHealth
               = fighter(3 - k).currentHealth - act'.hits[1].damage
          /\ fighterAfter(k).currentMana = fighter(k).currentMana
          /\ fighterAfter(k).cooldowns = fighter(k).cooldowns
          /\ fighterAfter(k).nextAbilityIndex = fighter(k).nextAbilityIndex
          /\ act'.uses = act.uses]_vars

\* a combatant whose rotation starts with an unknown id has made its second
\* basic attack, its index still on that entry
C23_Witness ==
  /\ pc = "effects"
  /\ act.used = "basic"
  /\ NextAbilityId(act.actor) \notin AbilityIds \cup {"none"}
  /\ act.basics[act.actor] >= 2
  /\ act.uses[act.actor] = 0
  /\ fighter(act.actor).nextAbilityIndex = 0

EffectsStep == pc = "effects" /\ pc' = "loop"

\* the effect types the switch of processCharacterEffects has a case for
KnownEffectTypes == {"poison", "burning", "manaDrain", "regeneration", "manaRegen"}

HasEffect(c, type) == \E i \in 1..Len(c.periodicEffects) : c.periodicEffects[i].type = type

\* C24: a tick of a periodic effect of an unknown type pushes no log entry
\* and, when it is all an effects pass does, leaves health and mana of both
\* combatants alone; the pass still stamps the effect's lastProcTime when it
\* ticks and removes it, with its expiry entry, when processed at or after
\* its endTime, and the loop goes on.
C24_UnknownEffectIgnored ==
  [][EffectsStep =>
       /\ \A t \in 1..Len(act'.ticks) :
             act'.ticks[t].type \notin KnownEffectTypes => act'.ticks[t].lines = 0
       /\ (\A t \in 1..Len(act'.ticks) : act'.ticks[t].type \notin KnownEffectTypes) =>
             \A k \in Combatants :
                /\ fighterAfter(k).currentHealth = fighter(k).currentHealth
                /\ fighterAfter(k).currentMana = fighter(k).currentMana
       /\ \A k \in Combatants : \A i \in 1..Len(fighter(k).periodicEffects) :
             LET effect == fighter(k).periodicEffects[i]
                 left == {j \in 1..Len(fighterAfter(k).periodicEffects) :
                            fighterAfter(k).periodicEffects[j].type = effect.type}
             IN effect.type \notin KnownEffectTypes =>
                  IF battleTime >= effect.endTime
                  THEN /\ left = {}
                       /\ \E x \in 1..Len(act'.expired) :
                            act'.expired[x] = [on |-> k, type |-> effect.type,
                                               time |-> battleTime]
                  ELSE \E j \in left :
                         fighterAfter(k).periodicEffects[j] =
                           [effect EXCEPT !.lastProcTime =
                              IF battleTime >= effect.lastProcTime + effect.interval
                              THEN battleTime ELSE @]]_vars

\* an effect of an unknown type has ticked for the second time and the
\* loop is at its condition again, both combatants alive
C24_Witness ==
  /\ pc = "loop"
  /\ act.kind = "effects"
  /\ BothAlive
  /\ \E t \in 1..Len(act.ticks) :
        /\ act.ticks[t].type \notin KnownEffectTypes
        /\ act.ticks[t].lastProcTime > 0
        /\ act.ticks[t].lines = 0
        /\ \E i \in 1..Len(fighter(act.ticks[t].on).periodicEffects) :
              /\ fighter(act.ticks[t].on).periodicEffects[i].type = act.ticks[t].type
              /\ fighter(act.ticks[t].on).periodicEffects[i].lastProcTime = battleTime

\* an effect of an unknown type has been removed at its endTime
C24_WitnessExpired ==
  /\ pc = "loop"
  /\ act.kind = "effects"
  /\ \E x \in 1..Len(act.expired) :
        /\ act.expired[x].type \notin KnownEffectTypes
        /\ ~HasEffect(fighter(act.expired[x].on), act.expired[x].type)

\* the periodic effect an attack step applied to the defender: its type and
\* duration, type "none" when the action applied none
AppliedEffect(used, hits) ==
  LET ability == getAbility(used)
  IN IF used \notin AbilityIds \/ ability.buffEffect.present \/ ability.healEffect.present
     THEN [type |-> "none", duration |-> 0]
     ELSE IF ability.dotEffect.present
     THEN [type |-> ability.dotEffect.type, duration |-> ability.dotEffect.duration]
     ELSE IF ability.periodicEffect.present
     THEN [type |-> ability.periodicEffect.type,
           duration |-> ability.periodicEffect.duration]
     ELSE IF /\ ~ability.guaranteedCrit /\ ~ability.multiAttack.present
             /\ ability.damage = "magic"
             /\ ability.criticalEffect.present /\ ability.criticalEffect.type = "burning"
             /\ hits[1].isCritical
     THEN [type |-> "burning", duration |-> ability.criticalEffect.duration]
     ELSE [type |-> "none", duration |-> 0]

\* the Brander re-applies Brand (interval 5 s) to the Hexer every 4 s
BrandScenario ==
  /\ InBattle
  /\ battleState.character1.name = "Hexer"
  /\ battleState.character2.name = "Brander"

\* C25: an attack that applies a periodic effect of a type the target
\* already carries changes that entry's endTime to t + duration and its
\* lastProcTime to t and nothing else, and adds no second entry; every tick
\* comes at least one interval after the entry's lastProcTime, so none
\* before t + interval; and an effect re-applied faster than its interval
\* never ticks.
C25_ReapplyResetsProcTimer ==
  /\ [][AttackStep =>
          LET d == 3 - act'.actor
              applied == AppliedEffect(act'.used, act'.hits)
              before == fighter(d).periodicEffects
              after == fighterAfter(d).periodicEffects
          IN \A i \in 1..Len(before) :
               before[i].type = applied.type =>
                 /\ Len(after) = Len(before)
                 /\ after[i] = [before[i] EXCEPT !.endTime = act'.time + applied.duration,
                                                 !.lastProcTime = act'.time]
                 /\ \A j \in 1..Len(before) : j # i => after[j] = before[j]]_vars
  /\ [](\A t \in 1..Len(act.ticks) :
          act.ticks[t].time >= act.ticks[t].lastProcTime + act.ticks[t].interval)
  /\ [](BrandScenario => \A t \in 1..Len(act.ticks) : act.ticks[t].on # 1)

\* Brand re-applied while the target still carries it, the battle older
\* than two of its intervals
C25_Witness ==
  /\ BrandScenario
  /\ pc = "effects"
  /\ act.used = "brand"
  /\ act.since # -1
  /\ act.since < getAbility("brand").dotEffect.duration
  /\ act.since < getAbility("brand").dotEffect.interval
  /\ battleTime >= 2 * getAbility("brand").dotEffect.interval
  /\ Len(battleState.character1.periodicEffects) = 1
  /\ battleState.character1.periodicEffects[1].type = "burning"
  /\ battleState.character1.periodicEffects[1].lastProcTime = battleTime
  /\ battleState.character1.periodicEffects[1].endTime
       = battleTime + getAbility("brand").dotEffect.duration

\* C26: a periodic effect ticks in an effects pass at t only when
\* lastProcTime + interval <= t < endTime, and a tick moves its lastProcTime
\* to t, so two ticks of one effect are at least an interval apart and none
\* comes at or after endTime; a pass at t removes every periodic effect and
\* every buff with endTime <= t and logs an expiry entry for each, and none
\* is left on either combatant after the pass.
C26_TickWindowAndExpiry ==
  /\ [][EffectsStep =>
          \A k \in Combatants :
             /\ \A i \in 1..Len(fighter(k).periodicEffects) :
                   LET effect == fighter(k).periodicEffects[i]
                       ticked == \E t \in 1..Len(act'.ticks) :
                                    /\ act'.ticks[t].on = k
                                    /\ act'.ticks[t].type = effect.type
                       left == {j \in 1..Len(fighterAfter(k).periodicEffects) :
                                  fighterAfter(k).periodicEffects[j].type = effect.type}
                   IN /\ ticked <=> (/\ effect.lastProcTime + effect.interval <= battleTime
                                     /\ battleTime < effect.endTime)
                      /\ IF battleTime >= effect.endTime
                         THEN /\ left = {}
                              /\ \E x \in 1..Len(act'.expired) :
                                   act'.expired[x] = [on |-> k, type |-> effect.type,
                                                      time |-> battleTime]
                         ELSE \E j \in left :
                                /\ fighterAfter(k).periodicEffects[j].endTime = effect.endTime
                                /\ fighterAfter(k).periodicEffects[j].lastProcTime
                                     = IF ticked THEN battleTime ELSE effect.lastProcTime
             /\ \A b \in 1..Len(fighter(k).buffs) :
                   LET buff == fighter(k).buffs[b]
                       left == {j \in 1..Len(fighterAfter(k).buffs) :
                                  fighterAfter(k).buffs[j].type = buff.type}
                   IN IF battleTime >= buff.endTime
                      THEN /\ left = {}
                           /\ \E x \in 1..Len(act'.lapsed) :
                                act'.lapsed[x] = [on |-> k, type |-> buff.type,
                                                  time |-> battleTime]
                      ELSE \E j \in left : fighterAfter(k).buffs[j] = buff]_vars
  /\ [](\A t \in 1..Len(act.ticks) :
          /\ act.ticks[t].time = battleTime
          /\ act.ticks[t].lastProcTime + act.ticks[t].interval <= act.ticks[t].time
          /\ act.ticks[t].time < act.ticks[t].endTime)
  /\ []((pc = "loop" /\ act.kind = "effects") =>
          \A k \in Combatants :
             /\ \A i \in 1..Len(fighter(k).periodicEffects) :
                   fighter(k).periodicEffects[i].endTime > battleTime
             /\ \A b \in 1..Len(fighter(k).buffs) :
                   fighter(k).buffs[b].endTime > battleTime)

\* one pass has removed a periodic effect past its endTime and a buff, while
\* an effect that is not yet due stays
C26_Witness ==
  /\ pc = "loop"
  /\ act.kind = "effects"
  /\ \E x \in 1..Len(act.expired) : act.expired[x].time = battleTime
  /\ \E x \in 1..Len(act.lapsed) : act.lapsed[x].time = battleTime
  /\ \E k \in Combatants :
        Len(fighter(k).periodicEffects) + Len(fighter(k).buffs) > 0

\* an effect has ticked for the second time, exactly one interval after
\* its first tick
C26_WitnessSecondTick ==
  /\ pc = "loop"
  /\ act.kind = "effects"
  /\ \E t \in 1..Len(act.ticks) :
        /\ act.ticks[t].lastProcTime > 0
        /\ act.ticks[t].time = act.ticks[t].lastProcTime + act.ticks[t].interval
        /\ act.ticks[t].type \in KnownEffectTypes

\* the buffs of one type in a list
BuffsOf(buffs, type) == {b \in 1..Len(buffs) : buffs[b].type = type}

\* the buff type that reduces a hit of the given kind
ReductionType(kind) == IF kind = "magic" THEN "magicReduction" ELSE "physicalReduction"

\* C27: at an attack at time t, every damageIncrease buff of the attacker
\* and every reduction buff of the defender that enters a hit's damage, and
\* every attackSpeedReduction buff of the attacker that enters its next
\* delay, has endTime > t.
C27_OnlyActiveBuffsCount ==
  [][AttackStep =>
       LET k == act'.actor
           t == act'.time
       IN /\ act'.hits # <<>> =>
               /\ \A b \in BuffsOf(fighter(k).buffs, "damageIncrease") :
                     fighter(k).buffs[b].endTime > t
               /\ \A b \in BuffsOf(fighter(3 - k).buffs, ReductionType(act'.hits[1].kind)) :
                     fighter(3 - k).buffs[b].endTime > t
          /\ \A b \in BuffsOf(fighterAfter(k).buffs, "attackSpeedReduction") :
                fighterAfter(k).buffs[b].endTime > t]_vars

\* the Berserker's Reckless Strike at t = 10 s, its Rage of t = 0 (6 s) in
\* the damage
C27_StaleRage ==
  /\ pc = "effects"
  /\ battleState.character1.name = "Berserker"
  /\ act.actor = 1
  /\ act.used = "reckless"
  /\ \E b \in BuffsOf(battleState.character1.buffs, "damageIncrease") :
        battleState.character1.buffs[b].endTime < battleTime
  /\ act.hits[1].baseDamage
       >= Round(battleState.character1.stats.minPhysicalDamage * 150, 100)

\* the ability is handled as a multi-attack: it has multiAttack and none of
\* the shapes that are handled before it
IsMultiAttack(id) ==
  /\ id \in AbilityIds
  /\ getAbility(id).multiAttack.present
  /\ ~getAbility(id).buffEffect.present /\ ~getAbility(id).healEffect.present
  /\ ~getAbility(id).dotEffect.present /\ ~getAbility(id).periodicEffect.present
  /\ ~getAbility(id).guaranteedCrit

\* C28: a multi-attack ability with count n used at `time` lands at least
\* one and at most n hits, hit k stamped time + 0.1 + (k - 1) * delay; every
\* hit after the first finds the defender above 0 health, and the hits stop
\* short of n only with the defender at or below 0.
C28_MultiAttackHits ==
  [][(AttackStep /\ IsMultiAttack(act'.used)) =>
       LET m == getAbility(act'.used).multiAttack
           n == IF m.count = 0 THEN 2 ELSE m.count
           delay == IF m.delay = 0 THEN 5 ELSE m.delay
           hits == act'.hits
       IN /\ Len(hits) >= 1
          /\ Len(hits) <= n
          /\ \A h \in 1..Len(hits) :
                /\ hits[h].time = act'.time + 1 + (h - 1) * delay
                /\ h > 1 => hits[h].healthBefore > 0
                /\ h > 1 => hits[h].healthBefore = hits[h - 1].healthAfter
                /\ hits[h].healthAfter <= 0 => h = Len(hits)
          /\ Len(hits) < n => hits[Len(hits)].healthAfter <= 0
          /\ fighterAfter(3 - act'.actor).currentHealth = hits[Len(hits)].healthAfter]_vars

\* a multi-attack of three hits cut short by its second hit
C28_Witness ==
  /\ pc = "effects"
  /\ IsMultiAttack(act.used)
  /\ getAbility(act.used).multiAttack.count = 3
  /\ Len(act.hits) = 2
  /\ act.hits[1].healthAfter > 0
  /\ act.hits[2].healthAfter <= 0
  /\ act.hits[2].time = act.time + 1 + getAbility(act.used).multiAttack.delay

\* a multi-attack that landed all three hits
C28_WitnessAllHits ==
  /\ pc = "effects"
  /\ IsMultiAttack(act.used)
  /\ Len(act.hits) = 3
  /\ act.hits[3].time = act.time + 1 + 2 * getAbility(act.used).multiAttack.delay

\* the ability is handled as a direct-damage ability of the given damage type
IsDirectDamage(id, damage) ==
  /\ id \in AbilityIds
  /\ abilityHandler(getAbility(id)) = "damage"
  /\ getAbility(id).damage = damage

\* what the backlash of a hit is to be: round(dealtDamage * p / 100)
Backlash(id, hit) == Round(hit.damage * getAbility(id).selfDamagePercent, 100)

\* the attacker of the step took the backlash of its hit, and at 0 health or
\* below the loop is left with the attacker defeated
TookBacklash ==
  LET k == act'.actor
  IN /\ Len(act'.hits) = 1
     /\ fighterAfter(k).currentHealth
          = fighter(k).currentHealth - Backlash(act'.used, act'.hits[1])
     /\ fighterAfter(k).currentHealth <= 0 => ~battleContinues(battleState', battleTime')

\* C29: a direct-damage ability with selfDamagePercent p, physical or magic,
\* costs its user round(dealtDamage * p / 100) health after the hit, and the
\* loop ends with the user defeated when that takes it to 0 or below.
C29_BacklashAnyDamageType ==
  [][(/\ AttackStep
      /\ \E damage \in {"physical", "magic"} : IsDirectDamage(act'.used, damage)
      /\ getAbility(act'.used).selfDamagePercent > 0) => TookBacklash]_vars

\* the same for magic abilities alone, which is what processDamageAbility does
C29_MagicBacklash ==
  [][(/\ AttackStep
      /\ IsDirectDamage(act'.used, "magic")
      /\ getAbility(act'.used).selfDamagePercent > 0) => TookBacklash]_vars

\* a magic ability with selfDamagePercent has hit
C29_MagicBacklashTaken ==
  /\ pc = "effects"
  /\ IsDirectDamage(act.used, "magic")
  /\ getAbility(act.used).selfDamagePercent > 0
  /\ Backlash(act.used, act.hits[1]) > 0

\* the list carries an entry of the type that ends at endTime
EndsAt(list, type, endTime) ==
  \E i \in 1..Len(list) : list[i].type = type /\ list[i].endTime = endTime

\* the number of shape flags an ability sets
ShapeFlags(ability) ==
  Cardinality({f \in {"buff", "heal", "dot", "periodic", "crit", "multi"} :
     \/ f = "buff" /\ ability.buffEffect.present
     \/ f = "heal" /\ ability.healEffect.present
     \/ f = "dot" /\ ability.dotEffect.present
     \/ f = "periodic" /\ ability.periodicEffect.present
     \/ f = "crit" /\ ability.guaranteedCrit
     \/ f = "multi" /\ ability.multiAttack.present})

\* C30: an ability use is resolved by one handler, the one of the first
\* flag present in the order buffEffect, healEffect, dotEffect,
\* periodicEffect, guaranteedCrit, multiAttack, else direct damage: a buff
\* ability applies its buff and lands no hit, a heal ability lands none and
\* leaves the defender alone, a dot ability applies its effect after at most
\* one hit at t, a periodic ability applies its effect without a hit, a
\* guaranteed-crit ability lands one critical physical hit at t, a
\* multi-attack its hits from t + 0.1 on, any other ability one hit at t.
C30_FirstFlagDispatch ==
  [][(AttackStep /\ act'.used # "basic") =>
       LET k == act'.actor
           t == act'.time
           a == getAbility(act'.used)
           hits == act'.hits
           sameDefender ==
             /\ fighterAfter(3 - k).currentHealth = fighter(3 - k).currentHealth
             /\ fighterAfter(3 - k).periodicEffects = fighter(3 - k).periodicEffects
       IN IF a.buffEffect.present
          THEN /\ hits = <<>>
               /\ sameDefender
               /\ fighterAfter(k).currentHealth = fighter(k).currentHealth
               /\ EndsAt(fighterAfter(IF a.buffEffect.targetsSelf THEN k ELSE 3 - k).buffs,
                         a.buffEffect.type, t + a.buffEffect.duration)
          ELSE IF a.healEffect.present
          THEN /\ hits = <<>>
               /\ sameDefender
               /\ fighterAfter(3 - k).buffs = fighter(3 - k).buffs
               /\ fighterAfter(k).currentHealth >= fighter(k).currentHealth
          ELSE IF a.dotEffect.present
          THEN /\ Len(hits) = (IF a.damage \in {"physical", "magic"} THEN 1 ELSE 0)
               /\ \A h \in 1..Len(hits) : hits[h].time = t
               /\ EndsAt(fighterAfter(3 - k).periodicEffects, a.dotEffect.type,
                         t + a.dotEffect.duration)
          ELSE IF a.periodicEffect.present
          THEN /\ hits = <<>>
               /\ fighterAfter(3 - k).currentHealth = fighter(3 - k).currentHealth
               /\ EndsAt(fighterAfter(3 - k).periodicEffects, a.periodicEffect.type,
                         t + a.periodicEffect.duration)
          ELSE IF a.guaranteedCrit
          THEN /\ Len(hits) = 1
               /\ hits[1].time = t /\ hits[1].isCritical /\ hits[1].kind = "physical"
               /\ fighterAfter(3 - k).periodicEffects = fighter(3 - k).periodicEffects
          ELSE IF a.multiAttack.present
          THEN /\ Len(hits) >= 1
               /\ hits[1].time = t + 1
          ELSE /\ Len(hits) = 1
               /\ hits[1].time = t]_vars

\* an ability that sets buffEffect and multiAttack has been used: its buff
\* is on its user and no hit was made
C30_Witness ==
  /\ pc = "effects"
  /\ act.used \in AbilityIds
  /\ getAbility(act.used).buffEffect.present
  /\ getAbility(act.used).multiAttack.present
  /\ ShapeFlags(getAbility(act.used)) = 2
  /\ act.hits = <<>>
  /\ EndsAt(fighter(act.actor).buffs, getAbility(act.used).buffEffect.type,
            act.time + getAbility(act.used).buffEffect.duration)

(***************************************************************************)
(* Health and mana bounds, winner, mana-drain source, timing.              *)
(***************************************************************************)
RegenTicks == {t \in 1..Len(act.ticks) : act.ticks[t].type = "regeneration"}

\* C31: a heal raises the caster's currentHealth by min(healAmount,
\* maxHealth - currentHealth) and reports that amount; a regeneration tick
\* adds its amount capped at maxHealth; currentHealth never exceeds
\* stats.health for either combatant.
C31_HealthCappedAtMax ==
  InBattle =>
    /\ \A k \in Combatants : fighter(k).currentHealth <= fighter(k).stats.health
    /\ act.kind = "attack" =>
          \A i \in 1..Len(act.heals) :
             LET h == act.heals[i]
             IN /\ h.actualHeal = Min(h.healAmount, h.maxHealth - h.previousHealth)
                /\ fighter(act.actor).currentHealth = h.previousHealth + h.actualHeal
    /\ act.kind = "effects" =>
          \A t \in RegenTicks :
             LET tick == act.ticks[t]
             IN tick.healthAfter = Min(fighter(tick.on).stats.health,
                                      tick.healthBefore + tick.amount)

\* a heal that the cap cut short
C31_Witness ==
  /\ act.kind = "attack"
  /\ \E i \in 1..Len(act.heals) :
        /\ act.heals[i].actualHeal < act.heals[i].healAmount
        /\ fighter(act.actor).currentHealth = fighter(act.actor).stats.health

\* a heal that restored its whole amount
C31_WitnessFullHeal ==
  /\ act.kind = "attack"
  /\ \E i \in 1..Len(act.heals) :
        /\ act.heals[i].actualHeal = act.heals[i].healAmount
        /\ act.heals[i].actualHeal > 0

\* a regeneration tick that the cap cut short, and one that it did not
C31_WitnessRegenCapped ==
  /\ act.kind = "effects"
  /\ \E t \in RegenTicks :
        /\ act.ticks[t].healthBefore + act.ticks[t].amount
              > fighter(act.ticks[t].on).stats.health
        /\ act.ticks[t].healthAfter = fighter(act.ticks[t].on).stats.health

C31_WitnessRegen ==
  /\ act.kind = "effects"
  /\ \E t \in RegenTicks :
        /\ act.ticks[t].healthAfter = act.ticks[t].healthBefore + act.ticks[t].amount
        /\ act.ticks[t].amount > 0

ManaRegenTicks == {t \in 1..Len(act.ticks) : act.ticks[t].type = "manaRegen"}

\* the ability the acting combatant used in this step, NoAbility for a basic attack
UsedAbility == getAbility(act'.used)

\* C32: currentMana stays within 0..stats.mana for both combatants: an
\* ability with a mana cost is used only with currentMana >= manaCost and
\* takes exactly manaCost from the caster, a basic attack changes no mana,
\* and mana drains and mana regenerations are clamped to 0 and to stats.mana.
C32_ManaWithinBounds ==
  /\ [](InBattle => \A k \in Combatants :
                       /\ 0 <= fighter(k).currentMana
                       /\ fighter(k).currentMana <= fighter(k).stats.mana)
  /\ [][AttackStep =>
          LET k == act'.actor
              paid == fighter(k).currentMana - UsedAbility.manaCost
          IN IF act'.used = "basic"
             THEN \A j \in Combatants : fighterAfter(j).currentMana = fighter(j).currentMana
             ELSE /\ fighter(k).currentMana >= UsedAbility.manaCost
                  /\ IF act'.drains = <<>>
                     THEN fighterAfter(k).currentMana = paid
                     ELSE act'.drains[1].sourceManaBefore = paid]_vars
  /\ [](InBattle =>
          /\ \A d \in 1..Len(act.drains) :
                LET drain == act.drains[d]
                IN /\ drain.drained = Min(drain.targetManaBefore, drain.amount)
                   /\ drain.sourceManaAfter
                        = Min(drain.sourceMax, drain.sourceManaBefore + drain.amount)
          /\ \A t \in ManaRegenTicks :
                LET tick == act.ticks[t]
                IN tick.manaAfter = Min(fighter(tick.on).stats.mana,
                                       tick.manaBefore + tick.amount))

\* an ability was paid for with the caster's last mana: what is left does
\* not pay for it again
C32_Witness ==
  /\ act.kind = "attack"
  /\ act.used # "basic"
  /\ getAbility(act.used).manaCost > 0
  /\ getAbility(act.used).periodicEffect.type # "manaDrain"
  /\ fighter(act.actor).currentMana < getAbility(act.used).manaCost

\* a basic attack made for want of mana
C32_WitnessBasic ==
  /\ act.kind = "attack"
  /\ act.used = "basic"
  /\ NextAbilityId(act.actor) \in AbilityIds
  /\ act.time >= fighter(act.actor).cooldowns[NextAbilityId(act.actor)]
  /\ fighter(act.actor).currentMana < getAbility(NextAbilityId(act.actor)).manaCost

\* a drain that found less mana than its amount, and a mana regeneration
\* that the maximum cut short
C32_WitnessDrainClamped ==
  /\ InBattle
  /\ \E d \in 1..Len(act.drains) :
        /\ act.drains[d].drained < act.drains[d].amount
        /\ act.drains[d].sourceManaAfter = act.drains[d].sourceMax

C32_WitnessRegenClamped ==
  /\ act.kind = "effects"
  /\ \E t \in ManaRegenTicks :
        /\ act.ticks[t].manaBefore + act.ticks[t].amount > fighter(act.ticks[t].on).stats.mana
        /\ act.ticks[t].manaAfter = fighter(act.ticks[t].on).stats.mana

\* the battle ended with a combatant at or below 0 health
EndedByDefeat ==
  /\ pc = "done"
  /\ \E k \in Combatants : fighter(k).currentHealth <= 0

\* C33: when a battle ends by a defeat, the reported winner has
\* currentHealth > 0 and the other combatant has currentHealth <= 0; a
\* combatant brought to 0 or below in the final step is not the winner.
C33_WinnerSurvived ==
  EndedByDefeat =>
    /\ battleState.winner \in Combatants
    /\ fighter(battleState.winner).currentHealth > 0
    /\ fighter(3 - battleState.winner).currentHealth <= 0

\* the caster of a backlash spell is at or below 0 health and is the winner
C33_SelfDefeatedWinner ==
  /\ EndedByDefeat
  /\ act.tail # <<>>
  /\ battleState.winner = 2
  /\ battleState.character2.currentHealth <= 0
  /\ battleState.character1.currentHealth <= 0

DrainTicks == {t \in 1..Len(act.ticks) : act.ticks[t].type = "manaDrain"}

\* combatant k has cast an ability whose periodic effect is a mana drain
CastDrain(k) ==
  \E a \in AbilityIds :
     /\ getAbility(a).periodicEffect.type = "manaDrain"
     /\ act.usedAt[k][a] # -1

\* C38: on every mana-drain tick the combatant credited with the mana is
\* the one who cast the effect, never the drained target itself, also when
\* both combatants have the same name.
C38_DrainCreditsCaster ==
  act.kind = "effects" =>
    \A t \in DrainTicks :
       /\ act.ticks[t].source \in Combatants \ {act.ticks[t].on}
       /\ CastDrain(act.ticks[t].source)

\* two combatants of one name: the tick on character1 drains character1 and
\* credits character1
C38_TargetCredited ==
  /\ act.kind = "effects"
  /\ battleState.character1.name = battleState.character2.name
  /\ \E t \in DrainTicks :
        /\ act.ticks[t].on = 1
        /\ act.ticks[t].source = 1
        /\ act.ticks[t].manaAfter >= act.ticks[t].manaBefore

NextAttackOf(k) == IF k = 1 THEN char1NextAttack ELSE char2NextAttack
NextAttackAfter(k) == IF k = 1 THEN char1NextAttack' ELSE char2NextAttack'

\* the actions combatant k has resolved: abilities used and basic attacks
ActionsOf(k) == act.uses[k] + act.basics[k]

C39_WitnessFirstActions ==
  /\ pc = "effects"
  /\ act.actor = 2
  /\ act.lastAt = <<0, 0>>
  /\ battleTime = 0

(***************************************************************************)
(* Matchmaking: the waiting list and the notifications.                    *)
(***************************************************************************)
\* two waiting entries that findMatch would pair
Pairable(e, f) == e.characterId # f.characterId /\ e.playerId # f.playerId

\* C34: after every queue operation the waiting list holds no two pairable
\* entries: all waiting entries belong to one player.  The pairing retry of
\* checkQueueStatus therefore finds no opponent and starts no battle.
C34_WaitingOfOneOwner ==
  /\ [](\A i, j \in 1..Len(matchmakingQueue) :
          /\ ~Pairable(matchmakingQueue[i], matchmakingQueue[j])
          /\ matchmakingQueue[i].playerId = matchmakingQueue[j].playerId)
  /\ [][CallOf("checkQueueStatus")
        => (/\ lastCall'.opponent = 0 /\ lastCall'.battles = 0 /\ ~lastCall'.threw
            /\ nextBattleId' = nextBattleId /\ battlelogs' = battlelogs
            /\ matchmakingQueue' = matchmakingQueue)]_vars

\* after a pairing, a waiting character among two polls and is told it waits
C34_Witness ==
  /\ lastCall.op = "checkQueueStatus"
  /\ lastCall.inQueue
  /\ lastCall.opponent = 0
  /\ Len(matchmakingQueue) = 2
  /\ nextBattleId > 1

Notified(c) == pendingMatchNotifications[c] # NoMatch

\* C35: no character is at once waiting and the holder of a pending
\* notification, and a stored notification changes only by being deleted, by
\* the addToQueue or checkQueueStatus of its holder that returns it or by
\* the holder's removeFromQueue; no later match overwrites it.
C35_NotificationKept ==
  /\ [](\A c \in CharIds : ~(InQueue(matchmakingQueue, c) /\ Notified(c)))
  /\ [][\A c \in CharIds :
          (Notified(c) /\ pendingMatchNotifications'[c] # pendingMatchNotifications[c])
            => (/\ pendingMatchNotifications'[c] = NoMatch
                /\ lastCall'.characterId = c
                /\ \/ /\ lastCall'.op \in {"addToQueue", "checkQueueStatus"}
                      /\ lastCall'.match = pendingMatchNotifications[c]
                   \/ /\ lastCall'.op = "removeFromQueue"
                      /\ lastCall'.dropped = pendingMatchNotifications[c])]_vars

\* the notification of the first battle is still stored when the second
\* battle has been run and notified
C35_Witness ==
  /\ lastCall.battles = 1
  /\ lastCall.match.battleId = 2
  /\ \E c \in CharIds :
        /\ pendingMatchNotifications[c].battleId = 1
        /\ c # lastCall.opponent
        /\ pendingMatchNotifications[lastCall.opponent].battleId = 2

\* the characterIds of the waiting list, in order
WaitingOrder(q) == [i \in 1..Len(q) |-> q[i].characterId]

\* C36: findMatch pairs the caller with the first entry of the waiting list
\* that is of another character and another player; the re-enqueue of a
\* waiting character only refreshes its timestamp: the order of the list,
\* and so the opponent any later caller gets, stays as it was.
C36_EarliestCompatible ==
  /\ [][(lastCall'.opponent # 0 /\ lastCall' # lastCall)
        => \E i \in 1..Len(matchmakingQueue) :
             /\ matchmakingQueue[i].characterId = lastCall'.opponent
             /\ matchmakingQueue[i].timestamp = lastCall'.stamp
             /\ isOpponent(matchmakingQueue[i], Caller, Owner(Caller))
             /\ \A j \in 1..(i - 1) :
                   ~isOpponent(matchmakingQueue[j], Caller, Owner(Caller))]_vars
  /\ [][(CallOf("addToQueue") /\ ~Notified(Caller) /\ InQueue(matchmakingQueue, Caller))
        => (/\ WaitingOrder(matchmakingQueue') = WaitingOrder(matchmakingQueue)
            /\ \A d \in CharIds :
                  opponentOf(matchmakingQueue', d, Owner(d))
                    = opponentOf(matchmakingQueue, d, Owner(d))
            /\ lastCall'.opponent = 0)]_vars

\* the opponent paired was first in the list although its timestamp had
\* been refreshed and is later than that of the compatible entry left behind
C36_Witness ==
  /\ lastCall.op = "addToQueue"
  /\ lastCall.battles = 1
  /\ Len(matchmakingQueue) = 1
  /\ isOpponent(matchmakingQueue[1], lastCall.characterId, Owner(lastCall.characterId))
  /\ matchmakingQueue[1].timestamp < lastCall.stamp

\* C37: a findMatch whose battle throws leaves the waiting list and the
\* notifications as they were when it was called: the caller and the chosen
\* opponent are still waiting.
C37_FailedBattleRestoresQueue ==
  [][(lastCall'.threw /\ lastCall' # lastCall)
     => (/\ InQueue(matchmakingQueue', Caller)
         /\ InQueue(matchmakingQueue', lastCall'.opponent)
         /\ \A d \in Waiting(matchmakingQueue) : InQueue(matchmakingQueue', d)
         /\ pendingMatchNotifications' = pendingMatchNotifications)]_vars

\* the battle threw and the caller and its opponent are no longer waiting
C37_EntriesLost ==
  /\ lastCall.threw
  /\ lastCall.opponent # 0
  /\ ~InQueue(matchmakingQueue, lastCall.characterId)
  /\ ~InQueue(matchmakingQueue, lastCall.opponent)
  /\ pendingMatchNotifications[lastCall.opponent] = NoMatch

(***************************************************************************)
(* The character records and the battles.                                  *)
(***************************************************************************)
\* the fields of a stored record that a battle is fought with
StoredFields(character) ==
  [name |-> character.name, stats |-> character.stats, rotation |-> character.rotation,
   attackType |-> character.attackType]

====
